---- MODULE Spec2Model ----
(***************************************************************************)
(* A model of the securefs stream stack (sources/streams.cpp): HMACStream, *)
(* the abstract CryptStream block walk, the test's DummpyCryptStream and   *)
(* AESGCMCryptStream with its meta stream and header.                      *)
(*                                                                         *)
(* Bytes are small naturals.  The cells of a meta store are pairs          *)
(* <<kind, payload>>: <<"b", n>> is the plain byte n, <<"gcm", x>> a byte  *)
(* of the AES-GCM tag of x and <<"hmac", x>> a byte of the HMAC-SHA256 of  *)
(* x.  Tags are symbolic (two tags are equal exactly when their inputs     *)
(* are), the AES-GCM keystream is computed (CTR mode: a XOR).              *)
(*                                                                         *)
(* The sizes 32 (hmac_length, header), 16 (tag) and 4096 (run_mac buffer)  *)
(* are scaled down; the layout arithmetic uses them by name only.          *)
(***************************************************************************)
EXTENDS Integers, Sequences, FiniteSets, TLC

VARIABLES
    cfg,        \* the handle's constructor arguments (immutable after Init)
    data,       \* the data ByteStore under the CryptStream (ciphertext bytes)
    meta,       \* the ByteStore under the HMACStream (tag cells, then content)
    is_dirty,   \* HMACStream::is_dirty
    enc,        \* history: blocks whose IV slot was last written by encrypt
    ref,        \* the test's POSIX mirror file
    expect,     \* history: the plaintext the writes and resizes define
    tamper,     \* -1, or the store offset changed behind the handle's back
    hdr,        \* history: the header write_header last stored, <<>> if none
    conf,       \* .securefs.json, what it was generated from, the last parse
    last        \* the last operation, its arguments and what it returned

vars == <<cfg, data, meta, is_dirty, enc, ref, expect, tamper, hdr, conf, last>>

----------------------------------------------------------------------------
(* Bounds of the model *)

\* largest size or offset a client of the CryptStream uses
MaxSize == 4
\* largest size or offset a client of the bare HMACStream uses
MaxHSize == 2
\* largest size or offset a client uses where flushes are modelled
MaxFSize == 2

\* the block sizes the DummpyCryptStream and the AES-GCM stream are built with
DummyBlockSizes == {1, 2, 3}
GCMBlockSizes == {2}
FlushBlockSizes == {1, 2}
\* the values generate_random can fill a byte with
RandomBytes == {0, 1}
\* the non-zero byte values clients write
DataBytes == {1, 2}
GCMDataBytes == {1}
\* the header lengths clients use: shorter than the header, and too long
HeaderLengths == {1, 3}
\* how many bytes generate_random's output repeats after
TapeLen == 2
\* the byte values a tampering third party can put into a store
TamperBytes == {0, 1, 2, 3}

Min(a, b) == IF a < b THEN a ELSE b
Max(a, b) == IF a > b THEN a ELSE b

\* key_type / id_type values of the handle (test_streams.cpp memsets them)
key_ff == 1
id_ee == 1

\* sizes of streams.cpp, scaled down
hmac_length == 2
mac_buffer_size == 2
get_mac_size == 1
get_header_size == 2
max_block_number == 1073741824

\* the content of a buffer the code allocated and did not initialise
Uninit == 3

ZeroCell == <<"b", 0>>
Cell(n) == <<"b", n>>
Cells(bytes) == [i \in 1..Len(bytes) |-> Cell(bytes[i])]
CellByte(cell) == IF cell[1] = "b" THEN cell[2] ELSE 0

RECURSIVE XorNat(_, _)
XorNat(a, b) ==
    IF a = 0 THEN b
    ELSE IF b = 0 THEN a
    ELSE (((a % 2) + (b % 2)) % 2) + (2 * XorNat(a \div 2, b \div 2))

----------------------------------------------------------------------------
(* ByteStore: the POSIX file under every stream *)

POSIX_read(s, off, len) ==
    IF off >= Len(s) \/ len = 0 THEN <<>>
    ELSE SubSeq(s, off + 1, Min(Len(s), off + len))

POSIX_write(s, zero, input, off) ==
    IF Len(input) = 0 THEN s
    ELSE [i \in 1..Max(Len(s), off + Len(input)) |->
            IF i > off /\ i <= off + Len(input) THEN input[i - off]
            ELSE IF i <= Len(s) THEN s[i]
            ELSE zero]

POSIX_resize(s, zero, n) ==
    [i \in 1..n |-> IF i <= Len(s) THEN s[i] ELSE zero]

----------------------------------------------------------------------------
(* The state operators work on: the two stores, the handle's dirty flag,   *)
(* the exception in flight, the random bytes generate_random returns, and  *)
(* the calls the operation has made on the stores that matter for what is  *)
(* durable (log).                                                          *)

Pack(d, m, dirty, e, rnd) ==
    [data |-> d, meta |-> m, dirty |-> dirty, enc |-> e,
     err |-> "none", erroff |-> 0, rnd |-> rnd, rpos |-> 0, log |-> <<>>]

Throw(S, e, off) == [S EXCEPT !.err = e, !.erroff = off]
Failed(S) == S.err # "none"

\* the n-th value generate_random returns in one operation
Draw(S, n) == S.rnd[(n % Len(S.rnd)) + 1]

----------------------------------------------------------------------------
(* HMACStream *)

RECURSIVE run_mac_loop(_, _, _)
run_mac_loop(base, off, fed) ==
    LET buffer == POSIX_read(base, off, mac_buffer_size)
    IN  IF Len(buffer) = 0 THEN fed
        ELSE run_mac_loop(base, off + Len(buffer), fed \o buffer)

run_mac_NoId(id, base) == <<0, run_mac_loop(base, hmac_length, <<>>)>>

\* what the calculator has been fed: the id, then the store from hmac_length on
run_mac(id, base) == <<id, run_mac_loop(base, hmac_length, <<>>)>>

\* calculator.Final after SetKey(key) and the updates `fed`
HMAC_Final(key, fed) == [i \in 1..hmac_length |-> <<"hmac", <<key, fed, i>>>>]

\* calculator.Verify
HMAC_Verify(key, fed, hmac) == hmac = HMAC_Final(key, fed)

HMACStream_ctor_NoVerify(key, id, base, check) ==
    IF ~check THEN "ok"
    ELSE LET hmac == POSIX_read(base, 0, hmac_length)
         IN  IF Len(hmac) = 0 THEN "ok"
             ELSE IF Len(hmac) # hmac_length THEN "InvalidFormat"
             ELSE "ok"

HMACStream_ctor_ShortOk(key, id, base, check) ==
    IF ~check THEN "ok"
    ELSE LET hmac == POSIX_read(base, 0, hmac_length)
         IN  IF Len(hmac) # hmac_length THEN "ok"
             ELSE IF ~HMAC_Verify(key, run_mac(id, base), hmac) THEN "InvalidHMAC"
             ELSE "ok"

\* the constructor: "ok", or the InvalidHMACStreamException it throws
\* ("InvalidFormat": not of enough length; "InvalidHMAC": HMAC mismatch)
HMACStream_ctor(key, id, base, check) ==
    IF ~check THEN "ok"
    ELSE LET hmac == POSIX_read(base, 0, hmac_length)
         IN  IF Len(hmac) = 0 THEN "ok"
             ELSE IF Len(hmac) # hmac_length THEN "InvalidFormat"
             ELSE IF ~HMAC_Verify(key, run_mac(id, base), hmac) THEN "InvalidHMAC"
             ELSE "ok"

HMACStream_flush(c, S) ==
    IF ~S.dirty THEN S
    ELSE [S EXCEPT
            !.meta = POSIX_write(@, ZeroCell,
                                 HMAC_Final(c.meta_key, run_mac(c.id, S.meta)), 0),
            !.log = @ \o <<"meta.write", "meta.flush">>,
            !.dirty = FALSE]

\* ~HMACStream: flush, whatever it throws is dropped
HMACStream_dtor(c, S) == HMACStream_flush(c, S)

HMACStream_size_NoHeader(S) == Len(S.meta)

HMACStream_size(S) ==
    IF Len(S.meta) < hmac_length THEN 0 ELSE Len(S.meta) - hmac_length

HMACStream_read(S, off, len) == POSIX_read(S.meta, off + hmac_length, len)

HMACStream_write_NotDirty(S, input, off) ==
    [S EXCEPT !.meta = POSIX_write(@, ZeroCell, input, off + hmac_length)]

HMACStream_write(S, input, off) ==
    [S EXCEPT !.meta = POSIX_write(@, ZeroCell, input, off + hmac_length),
              !.dirty = TRUE]

HMACStream_resize_NotDirty(S, len) ==
    [S EXCEPT !.meta = POSIX_resize(@, ZeroCell, len + hmac_length)]

HMACStream_resize(S, len) ==
    [S EXCEPT !.meta = POSIX_resize(@, ZeroCell, len + hmac_length),
              !.dirty = TRUE]

----------------------------------------------------------------------------
(* AESGCMCryptStream: layout of the meta stream *)

get_iv_size(c) == c.iv_size
get_meta_size(c) == get_iv_size(c) + get_mac_size
get_encrypted_header_size(c) == get_header_size + get_iv_size(c) + get_mac_size
meta_position_for_iv_NoHeader(c, block_num) == get_meta_size(c) * block_num

meta_position_for_iv(c, block_num) ==
    get_encrypted_header_size(c) + (get_meta_size(c) * block_num)

check_block_number_fails_AtLimit(c, block_number) == block_number >= c.max_block

\* check_block_number throws StreamTooLongException
check_block_number_fails(c, block_number) == block_number > c.max_block

is_all_zeros(cells) == \A i \in 1..Len(cells) : cells[i] = ZeroCell

RECURSIVE SumBytes(_)
SumBytes(cells) ==
    IF Len(cells) = 0 THEN 0 ELSE CellByte(Head(cells)) + SumBytes(Tail(cells))

\* AES in counter mode: byte i of the key stream of (key, iv)
KeyStream(key, iv, i) == (key + SumBytes(iv) + i) % 4

\* the tag of (key, iv, associated data, ciphertext)
GCM_tag(key, iv, aad, ct) ==
    [i \in 1..get_mac_size |-> <<"gcm", <<key, iv, aad, ct, i>>>>]

GCM_ctr(key, iv, input) ==
    [i \in 1..Len(input) |-> XorNat(input[i], KeyStream(key, iv, i))]

aes_gcm_encrypt_tagged(key, iv, aad, ct) ==
    [out |-> ct, mac |-> GCM_tag(key, iv, aad, ct)]

aes_gcm_encrypt(key, iv, aad, input) ==
    aes_gcm_encrypt_tagged(key, iv, aad, GCM_ctr(key, iv, input))

aes_gcm_decrypt(key, iv, aad, mac, input) ==
    [out |-> GCM_ctr(key, iv, input),
     success |-> mac = GCM_tag(key, iv, aad, input)]

\* what an operation hands back: the state and the bytes it produced
Ret(S, out) == [S |-> S, out |-> out]

\* generate_random(iv, get_iv_size()) at draw n
RandomIV(c, S, n) == Cells([i \in 1..get_iv_size(c) |-> Draw(S, n + i - 1)])

\* the do-while of encrypt: the first draw at or after n that is not all-zero
RECURSIVE FirstNonZeroDraw(_, _, _)
FirstNonZeroDraw(c, S, n) ==
    IF is_all_zeros(RandomIV(c, S, n))
    THEN FirstNonZeroDraw(c, S, n + get_iv_size(c))
    ELSE n

FirstDraw(c, S, n) == n

\* the position of the draw encrypt ends its loop with
encrypt_iv_draw(c, S, n) == FirstNonZeroDraw(c, S, n)

\* encrypt, from aes_gcm_encrypt's result on: the IV and the tag go to the meta
AESGCM_encrypt_store(c, S, block_number, n, iv, e) ==
    Ret(HMACStream_write([S EXCEPT !.rpos = n + get_iv_size(c),
                                   !.enc = @ \cup {block_number}],
                         iv \o e.mac, meta_position_for_iv(c, block_number)),
        e.out)

AESGCM_encrypt_iv(c, S, block_number, input, n, iv) ==
    AESGCM_encrypt_store(c, S, block_number, n, iv,
                         aes_gcm_encrypt(c.key, iv, c.id, input))

AESGCM_encrypt_draw(c, S, block_number, input, n) ==
    AESGCM_encrypt_iv(c, S, block_number, input, n, RandomIV(c, S, n))

AESGCM_encrypt(c, S, block_number, input) ==
    IF Len(input) = 0 THEN Ret(S, <<>>)
    ELSE IF check_block_number_fails(c, block_number)
    THEN Ret(Throw(S, "StreamTooLong", block_number * c.block_size), <<>>)
    ELSE AESGCM_encrypt_draw(c, S, block_number, input,
                             encrypt_iv_draw(c, S, S.rpos))

AESGCM_decrypt_unverified(c, S, block_number, d) == Ret(S, d.out)

AESGCM_decrypt_verify_Always(c, S, block_number, d) ==
    IF ~d.success
    THEN Ret(Throw(S, "MessageVerification", block_number * c.block_size), d.out)
    ELSE Ret(S, d.out)

\* decrypt, after aes_gcm_decrypt
AESGCM_decrypt_verify(c, S, block_number, d) ==
    IF c.check /\ ~d.success
    THEN Ret(Throw(S, "MessageVerification", block_number * c.block_size), d.out)
    ELSE Ret(S, d.out)

AESGCM_decrypt_block_NoSparse(c, S, block_number, input, iv, mac) ==
    AESGCM_decrypt_verify(c, S, block_number,
                          aes_gcm_decrypt(c.key, iv, c.id, mac, input))

\* decrypt, from the all-zero test of the IV on
AESGCM_decrypt_block(c, S, block_number, input, iv, mac) ==
    IF is_all_zeros(iv) THEN Ret(S, [i \in 1..Len(input) |-> 0])
    ELSE AESGCM_decrypt_verify(c, S, block_number,
                               aes_gcm_decrypt(c.key, iv, c.id, mac, input))

\* decrypt, from the length test of the IV and tag record on
AESGCM_decrypt_buffer(c, S, block_number, input, buffer) ==
    IF Len(buffer) # get_meta_size(c)
    THEN Ret(Throw(S, "CorruptedMetaData", 0), <<>>)
    ELSE AESGCM_decrypt_block(c, S, block_number, input,
                              SubSeq(buffer, 1, get_iv_size(c)),
                              SubSeq(buffer, get_iv_size(c) + 1, get_meta_size(c)))

AESGCM_decrypt(c, S, block_number, input) ==
    IF Len(input) = 0 THEN Ret(S, <<>>)
    ELSE IF check_block_number_fails(c, block_number)
    THEN Ret(Throw(S, "StreamTooLong", block_number * c.block_size), <<>>)
    ELSE AESGCM_decrypt_buffer(
             c, S, block_number, input,
             HMACStream_read(S, meta_position_for_iv(c, block_number),
                             get_meta_size(c)))

\* DummpyCryptStream::encrypt, which is its decrypt too
Dummy_encrypt(S, block_number, input) ==
    Ret(S, [i \in 1..Len(input) |-> XorNat(input[i], block_number % 256)])

\* the virtual calls of CryptStream
encrypt(c, S, block_number, input) ==
    IF c.kind = "gcm" THEN AESGCM_encrypt(c, S, block_number, input)
    ELSE Dummy_encrypt(S, block_number, input)

decrypt(c, S, block_number, input) ==
    IF c.kind = "gcm" THEN AESGCM_decrypt(c, S, block_number, input)
    ELSE Dummy_encrypt(S, block_number, input)

is_sparse(c) == c.kind = "gcm" /\ c.sparse

----------------------------------------------------------------------------
(* CryptStream *)

CryptStream_size(S) == Len(S.data)

\* a buffer of m_block_size bytes whose first bytes are `bytes`
Buffer(c, bytes, fill) ==
    [i \in 1..c.block_size |-> IF i <= Len(bytes) THEN bytes[i] ELSE fill]

read_block_ciphertext(c, S, block_number, ct) ==
    IF Len(ct) = 0 THEN Ret(S, <<>>) ELSE decrypt(c, S, block_number, ct)

\* read_block(block_number, output): rc is Len(out)
read_block(c, S, block_number) ==
    read_block_ciphertext(
        c, S, block_number,
        POSIX_read(S.data, block_number * c.block_size, c.block_size))

read_block_slice_Whole(c, r, begin, end) == r

\* read_block(block_number, output, begin, end), after the block was read
read_block_slice(c, r, begin, end) ==
    IF begin = 0 /\ end = c.block_size THEN r
    ELSE IF Failed(r.S) \/ Len(r.out) <= begin THEN Ret(r.S, <<>>)
    ELSE Ret(r.S, SubSeq(r.out, begin + 1, Min(end, Len(r.out))))

\* read_block(block_number, output, begin, end)
read_block_range(c, S, block_number, begin, end) ==
    IF ~(begin = 0 /\ end = c.block_size) /\ begin >= end THEN Ret(S, <<>>)
    ELSE read_block_slice(c, read_block(c, S, block_number), begin, end)

write_block_store(c, e, block_number) ==
    IF Failed(e.S) THEN e.S
    ELSE [e.S EXCEPT
            !.data = POSIX_write(@, 0, e.out, block_number * c.block_size),
            !.log = Append(@, "data.write")]

write_block(c, S, block_number, input) ==
    write_block_store(c, encrypt(c, S, block_number, input), block_number)

\* write_block on what was prepared, unless preparing it threw
write_block_prepared(c, p, block_number) ==
    IF Failed(p.S) THEN p.S ELSE write_block(c, p.S, block_number, p.out)

Overlay(buffer, input, begin, end) ==
    [i \in 1..Len(buffer) |->
        IF i > begin /\ i <= end THEN input[i - begin] ELSE buffer[i]]

rtwb_merge_KeepEnd(c, r, input, begin, end) ==
    Ret(r.S, SubSeq(Overlay(Buffer(c, r.out, Uninit), input, begin, end), 1, end))

\* read_then_write_block: the scratch buffer after the memcpy, cut to
\* max(rc, end) bytes
rtwb_merge(c, r, input, begin, end) ==
    Ret(r.S, SubSeq(Overlay(Buffer(c, r.out, Uninit), input, begin, end),
                    1, Max(Len(r.out), end)))

\* read_then_write_block: the bytes handed to write_block
rtwb_prepare(c, S, block_number, input, begin, end) ==
    IF begin = 0 /\ end = c.block_size THEN Ret(S, input)
    ELSE rtwb_merge(c, read_block(c, S, block_number), input, begin, end)

read_then_write_block(c, S, block_number, input, begin, end) ==
    IF ~(begin = 0 /\ end = c.block_size) /\ begin >= end THEN S
    ELSE write_block_prepared(
             c, rtwb_prepare(c, S, block_number, input, begin, end), block_number)

RECURSIVE CryptStream_read_loop(_, _, _, _, _)

\* the body of read's loop from read_block's return on
CryptStream_read_step(c, r, offset, length, output, wanted) ==
    IF Failed(r.S) THEN Ret(r.S, output)
    ELSE IF Len(r.out) < wanted THEN Ret(r.S, output \o r.out)
    ELSE CryptStream_read_loop(c, r.S, offset + Len(r.out), length - Len(r.out),
                               output \o r.out)

CryptStream_read_block(c, S, offset, length, output, block_num, begin, end) ==
    CryptStream_read_step(c, read_block_range(c, S, block_num, begin, end),
                          offset, length, output, end - begin)

CryptStream_read_loop(c, S, offset, length, output) ==
    IF length <= 0 THEN Ret(S, output)
    ELSE CryptStream_read_block(
             c, S, offset, length, output,
             offset \div c.block_size,
             offset - ((offset \div c.block_size) * c.block_size),
             Min(c.block_size,
                 offset + length - ((offset \div c.block_size) * c.block_size)))

\* CryptStream::read: total is Len(out)
CryptStream_read(c, S, offset, length) ==
    CryptStream_read_loop(c, S, offset, length, <<>>)

RECURSIVE CryptStream_unchecked_write(_, _, _, _)

CryptStream_unchecked_write_block(c, S, input, offset, block_num, begin, end) ==
    CryptStream_unchecked_write(
        c,
        read_then_write_block(c, S, block_num, SubSeq(input, 1, end - begin),
                              begin, end),
        SubSeq(input, end - begin + 1, Len(input)),
        offset + (end - begin))

CryptStream_unchecked_write(c, S, input, offset) ==
    IF Len(input) = 0 \/ Failed(S) THEN S
    ELSE CryptStream_unchecked_write_block(
             c, S, input, offset,
             offset \div c.block_size,
             offset - ((offset \div c.block_size) * c.block_size),
             Min(c.block_size,
                 offset + Len(input) - ((offset \div c.block_size) * c.block_size)))

RECURSIVE CryptStream_zero_fill(_, _, _, _)

CryptStream_zero_fill_block(c, S, offset, finish, block_num, begin, end) ==
    CryptStream_zero_fill(
        c,
        read_then_write_block(c, S, block_num, [i \in 1..(end - begin) |-> 0],
                              begin, end),
        offset + (end - begin), finish)

CryptStream_zero_fill(c, S, offset, finish) ==
    IF ~(offset < finish) \/ Failed(S) THEN S
    ELSE CryptStream_zero_fill_block(
             c, S, offset, finish,
             offset \div c.block_size,
             offset - ((offset \div c.block_size) * c.block_size),
             Min(c.block_size, finish - ((offset \div c.block_size) * c.block_size)))

\* resize, new_size < current_size: the bytes the last block is rewritten with
CryptStream_resize_residue(c, r, residue) ==
    Ret(r.S, SubSeq(Buffer(c, r.out, 0), 1, residue))

CryptStream_resize_shrink_Cut(c, S, new_size, residue, block_num) == S

CryptStream_resize_shrink(c, S, new_size, residue, block_num) ==
    IF residue > 0
    THEN write_block_prepared(
             c, CryptStream_resize_residue(c, read_block(c, S, block_num), residue),
             block_num)
    ELSE S

CryptStream_resize_grow_Dense(c, S, current_size, new_size, old_block, new_block) ==
    CryptStream_zero_fill(c, S, current_size, new_size)

CryptStream_resize_grow_NewBlockOnly(c, S, current_size, new_size, old_block, new_block) ==
    IF ~is_sparse(c) \/ old_block = new_block
    THEN CryptStream_zero_fill(c, S, current_size, new_size)
    ELSE CryptStream_zero_fill(c, S, new_block * c.block_size, new_size)

\* resize, new_size > current_size
CryptStream_resize_grow(c, S, current_size, new_size, old_block, new_block) ==
    IF ~is_sparse(c) \/ old_block = new_block
    THEN CryptStream_zero_fill(c, S, current_size, new_size)
    ELSE CryptStream_zero_fill(
             c,
             CryptStream_zero_fill(c, S, current_size,
                                   (old_block * c.block_size) + c.block_size),
             new_block * c.block_size, new_size)

CryptStream_resize_store_Skip(S, new_size) == S

\* resize: the final m_stream->resize(new_size), unless an exception is in flight
CryptStream_resize_store(S, new_size) ==
    IF Failed(S) THEN S
    ELSE [S EXCEPT !.data = POSIX_resize(@, 0, new_size),
                   !.log = Append(@, "data.resize")]

CryptStream_resize_from(c, S, new_size, current_size) ==
    IF new_size = current_size THEN S
    ELSE IF new_size < current_size
    THEN CryptStream_resize_store(
             CryptStream_resize_shrink(c, S, new_size, new_size % c.block_size,
                                       new_size \div c.block_size),
             new_size)
    ELSE CryptStream_resize_store(
             CryptStream_resize_grow(c, S, current_size, new_size,
                                     current_size \div c.block_size,
                                     new_size \div c.block_size),
             new_size)

CryptStream_resize(c, S, new_size) ==
    CryptStream_resize_from(c, S, new_size, CryptStream_size(S))

AESGCM_resize_meta_Skip(c, S, new_size, num_blocks) == S

AESGCM_resize_meta_OneShort(c, S, new_size, num_blocks) ==
    IF Failed(S) THEN S
    ELSE [HMACStream_resize(S, meta_position_for_iv(c, Max(num_blocks, 1) - 1))
            EXCEPT !.enc = {k \in @ : k < num_blocks}]

\* AESGCMCryptStream::resize after CryptStream::resize returned
AESGCM_resize_meta(c, S, new_size, num_blocks) ==
    IF Failed(S) THEN S
    ELSE [HMACStream_resize(S, meta_position_for_iv(c, num_blocks))
            EXCEPT !.enc = {k \in @ : k < num_blocks}]

AESGCM_resize(c, S, new_size) ==
    AESGCM_resize_meta(c, CryptStream_resize(c, S, new_size), new_size,
                       (new_size + c.block_size - 1) \div c.block_size)

\* the virtual resize
resize(c, S, new_size) ==
    IF c.kind = "gcm" THEN AESGCM_resize(c, S, new_size)
    ELSE CryptStream_resize(c, S, new_size)

CryptStream_write_resized(c, S, input, offset) ==
    IF Failed(S) THEN S ELSE CryptStream_unchecked_write(c, S, input, offset)

CryptStream_write_SkipEmpty(c, S, input, offset) ==
    IF Len(input) = 0 THEN S
    ELSE CryptStream_write_resized(
             c,
             IF offset > CryptStream_size(S) THEN resize(c, S, offset) ELSE S,
             input, offset)

CryptStream_write(c, S, input, offset) ==
    CryptStream_write_resized(
        c,
        IF offset > CryptStream_size(S) THEN resize(c, S, offset) ELSE S,
        input, offset)

AESGCM_flush_DataOnly(c, S) == S

\* CryptStream::flush: the data store is flushed
CryptStream_flush(S) == [S EXCEPT !.log = Append(@, "data.flush")]

AESGCM_flush_MetaFirst(c, S) == CryptStream_flush(HMACStream_flush(c, S))

\* AESGCMCryptStream::flush: CryptStream::flush (the data store), then the meta
AESGCM_flush(c, S) == HMACStream_flush(c, CryptStream_flush(S))

\* the destructor the compiler generates: the member m_metastream is
\* destroyed, the data store is not flushed
AESGCM_dtor(c, S) == HMACStream_dtor(c, S)

flush(c, S) == IF c.kind = "gcm" THEN AESGCM_flush(c, S) ELSE S

----------------------------------------------------------------------------
(* AESGCMCryptStream: the header *)

unchecked_read_header_decrypt(c, S, iv, mac, ciphertext) ==
    [S |-> S, rc |-> get_encrypted_header_size(c),
     out |-> aes_gcm_decrypt(c.key, iv, c.id, mac, ciphertext).out]

unchecked_read_header_buffer(c, S, buffer) ==
    IF Len(buffer) = 0 THEN [S |-> S, rc |-> 0, out |-> <<>>]
    ELSE IF Len(buffer) # get_encrypted_header_size(c)
    THEN [S |-> Throw(S, "CorruptedMetaData", 0), rc |-> 0, out |-> <<>>]
    ELSE unchecked_read_header_decrypt(
             c, S,
             SubSeq(buffer, 1, get_iv_size(c)),
             SubSeq(buffer, get_iv_size(c) + 1, get_meta_size(c)),
             [i \in 1..get_header_size |-> CellByte(buffer[get_meta_size(c) + i])])

\* returns rc (0 or the encrypted header size) and the decrypted header
unchecked_read_header(c, S) ==
    unchecked_read_header_buffer(
        c, S, HMACStream_read(S, 0, get_encrypted_header_size(c)))

unchecked_write_header_store_Truncates(c, S, iv, e) ==
    HMACStream_resize(
        HMACStream_write([S EXCEPT !.rpos = @ + get_iv_size(c)],
                         iv \o e.mac \o Cells(e.out), 0),
        get_encrypted_header_size(c))

unchecked_write_header_store(c, S, iv, e) ==
    HMACStream_write([S EXCEPT !.rpos = @ + get_iv_size(c)],
                     iv \o e.mac \o Cells(e.out), 0)

unchecked_write_header_iv(c, S, input, iv) ==
    unchecked_write_header_store(c, S, iv, aes_gcm_encrypt(c.key, iv, c.id, input))

unchecked_write_header(c, S, input) ==
    unchecked_write_header_iv(c, S, input, RandomIV(c, S, S.rpos))

\* read_header after unchecked_read_header: ret is the bool returned, out
\* what reached the caller's buffer
read_header_copy(r, length) ==
    IF length = get_header_size
    THEN [S |-> r.S, ret |-> r.rc # 0, out |-> r.out]
    ELSE [S |-> r.S, ret |-> r.rc # 0,
          out |-> SubSeq(r.out, 1, Min(Min(length, r.rc), Len(r.out)))]

read_header(c, S, length) ==
    IF length > get_header_size
    THEN [S |-> Throw(S, "InvalidArgument", 0), ret |-> FALSE, out |-> <<>>]
    ELSE read_header_copy(unchecked_read_header(c, S), length)

write_header_NoCheck(c, S, input) ==
    unchecked_write_header(
        c, S, [i \in 1..get_header_size |->
                 IF i <= Len(input) THEN input[i] ELSE 0])

write_header(c, S, input) ==
    IF Len(input) > get_header_size THEN Throw(S, "InvalidArgument", 0)
    ELSE unchecked_write_header(
             c, S, [i \in 1..get_header_size |->
                      IF i <= Len(input) THEN input[i] ELSE 0])

flush_header(c, S) == HMACStream_flush(c, S)

----------------------------------------------------------------------------
(* What the harness records of the last call: its name, its first argument *)
(* (the offset of a write, the size of a resize, the length of a header    *)
(* call), the exception it ended with, and the count it returned.          *)

NoOp == [op |-> "none", arg |-> 0, err |-> "none", erroff |-> 0, rc |-> 0]

\* what parse_config's caller holds before the call: nothing written yet
NoOut ==
    [ret |-> FALSE, err |-> "none", master_key |-> <<>>, block_size |-> 0,
     iv_size |-> 0, derived |-> FALSE]

\* no .securefs.json yet
NoJson == [version |-> 0]
CONFIG_FILE_NAME == ".securefs.json"
CONFIG_TMP_FILE_NAME == ".securefs.json.tmp"
\* a name the directory does not hold
NoFile == [exists |-> FALSE, text |-> <<>>]
\* the base directory before create
NoFiles == [name \in {CONFIG_FILE_NAME, CONFIG_TMP_FILE_NAME} |-> NoFile]
\* no chpass is running
NoRotation == [pc |-> "idle"]
\* the processes that run commands on the base directory
Procs == {1, 2}
\* no root directory in the base directory yet
NoRoot == [exists |-> FALSE, iv_size |-> 0]
\* a process that runs no command
Idle ==
    [cmd |-> "none", pc |-> "idle", version |-> 0, iv_size |-> 0, config_fd |-> -1,
     new |-> <<>>, calls |-> 0]
\* no command is running: nobody holds the lock on the base directory
NoCommands == [lock |-> {}, procs |-> [p \in Procs |-> Idle], root |-> NoRoot]
NoConf ==
    [json |-> NoJson, master_key |-> <<>>, password |-> <<>>, block_size |-> 0,
     iv_size |-> 0, rnd |-> <<>>, tried |-> <<>>, out |-> NoOut,
     fs |-> NoFiles, rot |-> NoRotation, cmd |-> NoCommands]
Op(name, arg, S, rc) ==
    [op |-> name, arg |-> arg, err |-> S.err, erroff |-> S.erroff, rc |-> rc]

\* the bytes test() writes
TestData(v, len) == [i \in 1..len |-> v]

\* one bit of the byte is flipped
FlipBit(b) == XorNat(b, 1)

----------------------------------------------------------------------------
(* The bare HMACStream over a POSIX store, driven as test() drives it *)

HMACConfig ==
    [kind |-> "hmac", block_size |-> 1, iv_size |-> 1, sparse |-> TRUE,
     check |-> TRUE, key |-> key_ff, meta_key |-> key_ff, id |-> id_ee,
     max_block |-> max_block_number, tapes |-> {<<0>>}]

HS == Pack(data, meta, is_dirty, enc, <<0>>)

InitHMAC ==
    /\ cfg = HMACConfig
    /\ data = <<>>
    /\ meta = <<>>
    /\ is_dirty = FALSE
    /\ enc = {}
    /\ ref = <<>>
    /\ expect = <<>>
    /\ tamper = -1
    /\ hdr = <<>>
    /\ conf = NoConf
    /\ last = NoOp

CommitMeta(S) ==
    /\ meta' = S.meta
    /\ is_dirty' = S.dirty

HWrite ==
    \E off \in 0..MaxHSize, len \in 0..MaxHSize, v \in DataBytes :
        /\ tamper = -1
        /\ off + len <= MaxHSize
        /\ CommitMeta(HMACStream_write(HS, Cells(TestData(v, len)), off))
        /\ ref' = POSIX_write(ref, ZeroCell, Cells(TestData(v, len)), off)
        /\ last' = Op("write", off, HS, 0)
        /\ UNCHANGED <<cfg, hdr, conf, data, enc, expect, tamper>>

HRead ==
    \E off \in 0..MaxHSize, len \in 0..MaxHSize + 1 :
        /\ tamper = -1
        /\ last' = Op("read", 0, HS, Len(HMACStream_read(HS, off, len)))
        /\ UNCHANGED <<cfg, hdr, conf, data, meta, is_dirty, enc, ref, expect, tamper>>

HResize ==
    \E n \in 0..MaxHSize :
        /\ tamper = -1
        /\ CommitMeta(HMACStream_resize(HS, n))
        /\ ref' = POSIX_resize(ref, ZeroCell, n)
        /\ last' = Op("resize", n, HS, 0)
        /\ UNCHANGED <<cfg, hdr, conf, data, enc, expect, tamper>>

HFlush ==
    /\ tamper = -1
    /\ CommitMeta(HMACStream_flush(cfg, HS))
    /\ last' = Op("flush", 0, HS, 0)
    /\ UNCHANGED <<cfg, hdr, conf, data, enc, ref, expect, tamper>>

\* after a flush somebody changes one byte of the store, keeping its length
HTamper ==
    \E pos \in 0..MaxHSize + hmac_length, b \in TamperBytes :
        /\ tamper = -1
        /\ last.op = "flush"
        /\ pos < Len(meta)
        /\ meta[pos + 1] # Cell(b)
        /\ meta' = [meta EXCEPT ![pos + 1] = Cell(b)]
        /\ tamper' = pos
        /\ last' = [NoOp EXCEPT !.op = "tamper", !.arg = pos]
        /\ UNCHANGED <<cfg, hdr, conf, data, is_dirty, enc, ref, expect>>

\* a second HMACStream is constructed over the same store with check = true
HOpen ==
    /\ last' = [NoOp EXCEPT !.op = "open",
                   !.err = HMACStream_ctor(cfg.meta_key, cfg.id, meta, TRUE)]
    /\ UNCHANGED <<cfg, hdr, conf, data, meta, is_dirty, enc, ref, expect, tamper>>

NextHMAC == HWrite \/ HRead \/ HResize \/ HFlush \/ HTamper \/ HOpen

SpecHMAC == InitHMAC /\ [][NextHMAC]_vars

----------------------------------------------------------------------------
(* A CryptStream (the test's dummy, or AES-GCM over two stores) driven as  *)
(* test() drives it, beside its POSIX mirror.                              *)

\* what generate_random returns during one call of an operation, repeated;
\* a tape of zeros only would keep encrypt in its loop for ever
Tapes ==
    {t \in [1..TapeLen -> RandomBytes] :
        /\ \E i \in 1..TapeLen : t[i] # 0
        /\ \A i \in 2..TapeLen : t[i] # 0}

\* where flushes are modelled no draw is zero
FlushTapes == {t \in Tapes : t[1] # 0}

\* the byte values the harness writes through a handle of this kind
WriteBytes(c) == IF c.kind = "gcm" THEN GCMDataBytes ELSE DataBytes

DummyConfigs ==
    {[kind |-> "dummy", block_size |-> b, iv_size |-> 1, sparse |-> FALSE,
      check |-> TRUE, key |-> key_ff, meta_key |-> key_ff, id |-> id_ee,
      max_block |-> max_block_number, tapes |-> {<<0>>}] : b \in DummyBlockSizes}

GCMConfigs ==
    {[kind |-> "gcm", block_size |-> b, iv_size |-> 1, sparse |-> sp,
      check |-> TRUE, key |-> key_ff, meta_key |-> key_ff, id |-> id_ee,
      max_block |-> max_block_number, tapes |-> Tapes] :
        b \in GCMBlockSizes, sp \in BOOLEAN}

FlushConfigs ==
    {[c EXCEPT !.block_size = b, !.tapes = FlushTapes] :
        c \in GCMConfigs, b \in FlushBlockSizes}

CS(rnd) == Pack(data, meta, is_dirty, enc, rnd)
Now == CS(<<0>>)

\* what C1 expects a write to leave: zeros in the gap, then the input
ExpectWrite(e, input, off) ==
    [i \in 1..Max(Max(Len(e), off), off + Len(input)) |->
        IF i > off /\ i <= off + Len(input) THEN input[i - off]
        ELSE IF i <= Len(e) THEN e[i]
        ELSE 0]

InitStores ==
    /\ data = <<>>
    /\ meta = <<>>
    /\ is_dirty = FALSE
    /\ enc = {}
    /\ ref = <<>>
    /\ expect = <<>>
    /\ tamper = -1
    /\ hdr = <<>>
    /\ conf = NoConf
    /\ last = NoOp

Init ==
    /\ cfg \in DummyConfigs \cup GCMConfigs
    /\ InitStores

Commit(S) ==
    /\ data' = S.data
    /\ meta' = S.meta
    /\ is_dirty' = S.dirty
    /\ enc' = S.enc

WriteDone(S, input, off) ==
    /\ Commit(S)
    /\ ref' = POSIX_write(ref, 0, input, off)
    /\ expect' = IF Failed(S) THEN expect ELSE ExpectWrite(expect, input, off)
    /\ last' = Op("write", off, S, 0)

Write(max) ==
    \E off \in 0..max, len \in 0..max, v \in WriteBytes(cfg), rnd \in cfg.tapes :
        /\ tamper = -1
        /\ off + len <= max
        /\ WriteDone(CryptStream_write(cfg, CS(rnd), TestData(v, len), off),
                     TestData(v, len), off)
        /\ UNCHANGED <<cfg, hdr, conf, tamper>>

ReadDone(r, off) == last' = Op("read", 0, r.S, Len(r.out))

\* the harness reads from any offset to the end and past it
Read(max) ==
    \E off \in 0..max :
        /\ ReadDone(CryptStream_read(cfg, Now, off, max + 1), off)
        /\ UNCHANGED <<cfg, hdr, conf, data, meta, is_dirty, enc, ref, expect, tamper>>

Size ==
    /\ tamper = -1
    /\ last' = Op("size", 0, Now, CryptStream_size(Now))
    /\ UNCHANGED <<cfg, hdr, conf, data, meta, is_dirty, enc, ref, expect, tamper>>

ResizeDone(S, n) ==
    /\ Commit(S)
    /\ ref' = POSIX_resize(ref, 0, n)
    /\ expect' = IF Failed(S) THEN expect ELSE POSIX_resize(expect, 0, n)
    /\ last' = Op("resize", n, S, 0)

Resize(max) ==
    \E n \in 0..max, rnd \in cfg.tapes :
        /\ tamper = -1
        /\ ResizeDone(resize(cfg, CS(rnd), n), n)
        /\ UNCHANGED <<cfg, hdr, conf, tamper>>

Done(name, arg, S) ==
    /\ Commit(S)
    /\ last' = Op(name, arg, S, 0)

Flush ==
    /\ tamper = -1
    /\ Done("flush", 0, flush(cfg, Now))
    /\ UNCHANGED <<cfg, hdr, conf, ref, expect, tamper>>

WriteHeaderDone(S, input) ==
    /\ Commit(S)
    /\ hdr' = IF Failed(S) THEN hdr
              ELSE input \o [i \in 1..get_header_size - Len(input) |-> 0]
    /\ last' = Op("write_header", Len(input), S, 0)

WriteHeaderOf(lens, bytes) ==
    \E len \in lens, v \in bytes, rnd \in cfg.tapes :
        /\ tamper = -1
        /\ cfg.kind = "gcm"
        /\ WriteHeaderDone(write_header(cfg, CS(rnd), TestData(v, len)),
                           TestData(v, len))
        /\ UNCHANGED <<cfg, conf, ref, expect, tamper>>

WriteHeader == WriteHeaderOf(HeaderLengths, GCMDataBytes)

ReadHeaderDone(r, len) ==
    last' = Op("read_header", len, r.S, IF r.ret THEN 1 ELSE 0)

ReadHeader ==
    \E len \in HeaderLengths :
        /\ cfg.kind = "gcm"
        /\ ReadHeaderDone(read_header(cfg, Now, len), len)
        /\ UNCHANGED <<cfg, hdr, conf, data, meta, is_dirty, enc, ref, expect, tamper>>

FlushHeader ==
    /\ tamper = -1
    /\ cfg.kind = "gcm"
    /\ Done("flush_header", 0, flush_header(cfg, Now))
    /\ UNCHANGED <<cfg, hdr, conf, ref, expect, tamper>>

\* the handle is destroyed; the next operation is on a handle opened anew
Close ==
    /\ tamper = -1
    /\ cfg.kind = "gcm"
    /\ Done("close", 0, AESGCM_dtor(cfg, Now))
    /\ UNCHANGED <<cfg, hdr, conf, ref, expect, tamper>>

\* somebody flips a bit of one byte of the data store behind the handle's back
TamperData(max) ==
    \E pos \in 0..max :
        /\ tamper = -1
        /\ cfg.kind = "gcm"
        /\ pos < Len(data)
        /\ data' = [data EXCEPT ![pos + 1] = FlipBit(@)]
        /\ tamper' = pos
        /\ last' = [NoOp EXCEPT !.op = "tamper", !.arg = pos]
        /\ UNCHANGED <<cfg, hdr, conf, meta, is_dirty, enc, ref, expect>>

\* a second AES-GCM stream is opened over the same two stores, check = true
Open ==
    /\ cfg.kind = "gcm"
    /\ last' = [NoOp EXCEPT !.op = "open",
                   !.err = HMACStream_ctor(cfg.meta_key, cfg.id, meta, TRUE)]
    /\ UNCHANGED <<cfg, hdr, conf, data, meta, is_dirty, enc, ref, expect, tamper>>

\* writes, reads and resizes, and tampering with the data store
Next ==
    \/ Write(MaxSize) \/ Read(MaxSize) \/ Size \/ Resize(MaxSize)
    \/ WriteHeader \/ ReadHeader
    \/ TamperData(MaxSize)

Spec == Init /\ [][Next]_vars

\* the same with flush, flush_header and a second open, on shorter streams
InitFlush ==
    /\ cfg \in FlushConfigs
    /\ InitStores

NextFlush ==
    \/ Write(MaxFSize) \/ Read(MaxFSize) \/ Resize(MaxFSize)
    \/ WriteHeader \/ Flush \/ FlushHeader \/ Open

SpecFlush == InitFlush /\ [][NextFlush]_vars

----------------------------------------------------------------------------
(* HMACStream: the shifted view, flush and reopen, tampering (SpecHMAC) *)

\* C3: an HMACStream over the store `meta` behaves like the plain byte store
\* `ref` whose byte x is the store's byte x + hmac_length: size() is
\* max(0, store size - hmac_length) and equals the mirror's size, every read
\* at off returns what the mirror returns (the store's bytes from
\* off + hmac_length on), resize(n) leaves the store n + hmac_length long, and
\* no operation other than flush changes an existing byte of the store's
\* first hmac_length bytes.
C3_HMACStreamIsShiftedStore ==
    /\ [](tamper = -1 =>
            /\ HMACStream_size(HS) = Len(ref)
            /\ HMACStream_size(HS) = Max(0, Len(meta) - hmac_length)
            /\ \A x \in 1..Len(ref) : meta[x + hmac_length] = ref[x]
            /\ \A off \in 0..MaxHSize + 1, len \in 0..MaxHSize + 1 :
                  HMACStream_read(HS, off, len) = POSIX_read(ref, off, len))
    /\ [][/\ last'.op = "resize" => Len(meta') = last'.arg + hmac_length
          /\ last'.op \in {"write", "read", "resize", "open"} =>
                \A i \in 1..Min(hmac_length, Len(meta)) : meta'[i] = meta[i]]_vars

\* C3's case: a write or a resize went through the handle and left content
\* behind the reserved bytes
C3_Witness ==
    /\ last.op \in {"write", "resize"}
    /\ Len(ref) > 0
    /\ Len(meta) = Len(ref) + hmac_length

\* C4: after writes and resizes followed by flush(), a new HMACStream built
\* with check = true over the same store, key and id is constructed without
\* InvalidFormat or InvalidHMAC, and it reports the size and the bytes the
\* flushed handle had (those of the mirror).
C4_FlushThenReopen ==
    (tamper = -1 /\ last.op = "flush") =>
        /\ HMACStream_ctor(cfg.meta_key, cfg.id, meta, TRUE) = "ok"
        /\ HMACStream_size(Pack(data, meta, FALSE, enc, <<0>>)) = Len(ref)
        /\ \A off \in 0..MaxHSize, len \in 0..MaxHSize + 1 :
              HMACStream_read(Pack(data, meta, FALSE, enc, <<0>>), off, len)
                  = POSIX_read(ref, off, len)

\* C4's case: content was written, then flushed, and the store now opens
C4_Witness ==
    /\ last.op = "flush"
    /\ Len(ref) > 0
    /\ meta[1][1] = "hmac"
    /\ HMACStream_ctor(cfg.meta_key, cfg.id, meta, TRUE) = "ok"

\* C6: once a single byte of the flushed store (a tag byte or a content
\* byte) was changed, the store keeping its length, every construction with
\* check = true and the same key and id fails with InvalidHMAC.
C6_TamperedStoreFailsHMAC ==
    tamper # -1 =>
        /\ Len(meta) >= hmac_length
        /\ HMACStream_ctor(cfg.meta_key, cfg.id, meta, TRUE) = "InvalidHMAC"

\* C6's case: a content byte was changed and the next open threw InvalidHMAC
C6_Witness ==
    /\ tamper >= hmac_length
    /\ last.op = "open"
    /\ last.err = "InvalidHMAC"

----------------------------------------------------------------------------
(* CryptStream: contents, the POSIX mirror, read counts (Spec) *)

\* a read that ended without an exception and produced `want`
ReadIs(r, want) == ~Failed(r.S) /\ r.out = want

\* every read through the handle S returns what a plain store holding
\* `bytes` returns
ReadsAgree(S, bytes) ==
    \A off \in 0..MaxSize + 1, len \in 0..MaxSize + 1 :
        ReadIs(CryptStream_read(cfg, S, off, len), POSIX_read(bytes, off, len))

\* C1: after any writes and resizes through one handle, size() is the size
\* the writes and resizes define and a read returns, at every offset below
\* it, the byte written there last, and zero where only a resize or the gap
\* of a write past the end reached.
C1_ReadsReturnLastWritten ==
    tamper = -1 =>
        /\ CryptStream_size(Now) = Len(expect)
        /\ ReadsAgree(Now, expect)

\* C1's case: a write started past the end and left a gap of zeros in front
\* of the bytes it wrote
C1_Witness ==
    /\ last.op = "write"
    /\ Len(expect) >= 3
    /\ expect[1] # 0
    /\ expect[2] = 0
    /\ expect[Len(expect)] # 0

\* C2: after every operation the CryptStream and the POSIX mirror, driven
\* with the same writes, reads and resizes (zero lengths and offsets past
\* the end included), report the same size and return the same count and
\* bytes from every read.
C2_EquivalentToPOSIXMirror ==
    tamper = -1 =>
        /\ Len(ref) = CryptStream_size(Now)
        /\ ReadsAgree(Now, ref)

\* C10: in every state, read(off, len) returns exactly
\* min(len, max(0, size() - off)) bytes.
C10_ReadCount ==
    tamper = -1 =>
        \A off \in 0..MaxSize + 1, len \in 0..MaxSize + 1 :
            Len(CryptStream_read(cfg, Now, off, len).out)
                = Min(len, Max(0, CryptStream_size(Now) - off))

\* C10's case: a read that crossed a block boundary and came back short
\* because the stream ended
C10_Witness ==
    /\ last.op = "read"
    /\ last.rc > cfg.block_size
    /\ last.rc = CryptStream_size(Now)
    /\ last.rc < MaxSize + 1

----------------------------------------------------------------------------
(* AESGCMCryptStream: tampered ciphertext, IVs (Spec) *)

\* C7: once one byte of the ciphertext of block k was changed and block k's
\* IV is not all-zero, every read whose range meets block k throws
\* MessageVerification with offset k * block_size, and every other read
\* returns what it returned before.
C7_TamperedBlockFailsVerification ==
    (/\ tamper # -1
     /\ cfg.kind = "gcm"
     /\ ~is_all_zeros(HMACStream_read(
            Now, meta_position_for_iv(cfg, tamper \div cfg.block_size),
            get_iv_size(cfg)))) =>
        \A off \in 0..MaxSize + 1, len \in 1..MaxSize + 1 :
            IF /\ off < ((tamper \div cfg.block_size) + 1) * cfg.block_size
               /\ off + len > (tamper \div cfg.block_size) * cfg.block_size
            THEN /\ CryptStream_read(cfg, Now, off, len).S.err
                        = "MessageVerification"
                 /\ CryptStream_read(cfg, Now, off, len).S.erroff
                        = (tamper \div cfg.block_size) * cfg.block_size
            ELSE ReadIs(CryptStream_read(cfg, Now, off, len),
                        POSIX_read(expect, off, len))

\* C7's case: the second block was tampered with and a read threw
C7_Witness ==
    /\ tamper >= cfg.block_size
    /\ last.op = "read"
    /\ last.err = "MessageVerification"
    /\ last.erroff = (tamper \div cfg.block_size) * cfg.block_size

\* C8: every IV slot of the meta stream that a block encryption wrote last
\* holds an IV that is not all-zero.
C8_NoZeroIV ==
    \A k \in enc :
        /\ Len(HMACStream_read(Now, meta_position_for_iv(cfg, k),
                               get_iv_size(cfg))) = get_iv_size(cfg)
        /\ ~is_all_zeros(HMACStream_read(Now, meta_position_for_iv(cfg, k),
                                         get_iv_size(cfg)))

\* C8's case: two blocks were encrypted, the second by a resize that
\* extended the stream
C8_Witness ==
    /\ last.op = "resize"
    /\ {0, 1} \subseteq enc

----------------------------------------------------------------------------
(* AESGCMCryptStream: flush and reopen, the meta size (SpecFlush) *)

\* C5: after writes, resizes and write_headers followed by flush(), a new
\* AES-GCM stream over the same two stores with the same keys, id, block
\* size and IV size is constructed with check = true without an exception,
\* and it reports the size and returns from every read the plaintext the
\* old handle had, without CorruptedMetaData or MessageVerification.
C5_AESGCMFlushThenReopen ==
    last.op = "flush" =>
        /\ HMACStream_ctor(cfg.meta_key, cfg.id, meta, cfg.check) = "ok"
        /\ CryptStream_size(Pack(data, meta, FALSE, enc, <<0>>)) = Len(expect)
        /\ ReadsAgree(Pack(data, meta, FALSE, enc, <<0>>), expect)

\* C5's case: data and a header were written, then flushed
C5_Witness ==
    /\ last.op = "flush"
    /\ Len(expect) > 0
    /\ Len(meta) > 0
    /\ meta[1][1] = "hmac"
    /\ meta[hmac_length + 2][1] = "gcm"

\* C9 as stated: after any flush, the flush of a fresh handle included, the
\* logical meta size is encrypted header size + ceil(size / B) * (I + tag).
C9_MetaSizeAfterFlush ==
    last.op = "flush" =>
        HMACStream_size(Now)
            = get_encrypted_header_size(cfg)
              + (((CryptStream_size(Now) + cfg.block_size - 1) \div cfg.block_size)
                 * get_meta_size(cfg))

\* C9, amended: after any flush the meta store is either still empty, the
\* data store being empty too, or its logical size is
\* encrypted header size + ceil(size / B) * (I + tag).
C9_MetaSizeAfterFlush_Amended ==
    last.op = "flush" =>
        \/ Len(meta) = 0 /\ Len(data) = 0
        \/ HMACStream_size(Now)
              = meta_position_for_iv(
                    cfg, (CryptStream_size(Now) + cfg.block_size - 1)
                             \div cfg.block_size)

\* C9's case: a flush of a stream that holds data
C9_Witness ==
    /\ last.op = "flush"
    /\ Len(data) > 0
    /\ Len(meta) = hmac_length + meta_position_for_iv(cfg, 1)

----------------------------------------------------------------------------
(* Streams of several blocks: truncation, sparse holes (SpecSparse) *)

\* largest size or offset a client uses where holes are studied
MaxSSize == 4
SparseBlockSizes == {1, 2}

SparseConfigs ==
    {[c EXCEPT !.block_size = b] : c \in GCMConfigs, b \in SparseBlockSizes}
        \cup {c \in DummyConfigs : c.block_size = 2}

InitSparse ==
    /\ cfg \in SparseConfigs
    /\ InitStores

NextSparse == Write(MaxSSize) \/ Read(MaxSSize) \/ Resize(MaxSSize)

SpecSparse == InitSparse /\ [][NextSparse]_vars

\* the handle's state when its next operation starts, with the tape rnd
Rewind(S, rnd) == [S EXCEPT !.rnd = rnd, !.rpos = 0]

\* the IV slot of block k in the meta store m, as decrypt reads it
SlotIV(m, k) ==
    POSIX_read(m, meta_position_for_iv(cfg, k) + hmac_length, get_iv_size(cfg))

\* C11: in a stream of size n, resize(t) with t < n followed by resize(n)
\* leaves a stream of size n whose first t bytes are the old ones and whose
\* bytes in [t, n) are zero: what a stream that only ever held the first t
\* bytes and was extended to n reads as.
C11_TruncateThenExtend ==
    tamper = -1 =>
        \A t \in 0..MaxSSize, rnd \in cfg.tapes :
            t < Len(expect) =>
                ReadIs(CryptStream_read(
                           cfg,
                           resize(cfg, Rewind(resize(cfg, CS(rnd), t), rnd),
                                  Len(expect)),
                           0, Len(expect) + 1),
                       [i \in 1..Len(expect) |-> IF i <= t THEN expect[i] ELSE 0])

\* C11's case: a stream was cut inside its first block and extended again
\* over a second block, and the bytes cut off read as zeros
C11_Witness ==
    /\ last.op = "resize"
    /\ Len(expect) > cfg.block_size
    /\ expect[1] # 0
    /\ \A i \in 2..Len(expect) : expect[i] = 0
    /\ cfg.block_size = 2
    /\ enc = {0, 1}

\* C12 as stated: a write of one byte at offset n * B (n >= 1) into an empty
\* AES-GCM stream on a sparse host leaves all-zero IV slots for blocks
\* 0..n-1 and a non-zero IV in the slot of block n.
C12_SparseWriteSlots ==
    [][(/\ cfg.kind = "gcm"
        /\ cfg.sparse
        /\ Len(data) = 0
        /\ last'.op = "write"
        /\ last'.arg >= cfg.block_size
        /\ last'.arg % cfg.block_size = 0
        /\ Len(data') = last'.arg + 1) =>
           /\ \A k \in 0..(last'.arg \div cfg.block_size) - 1 :
                 /\ Len(SlotIV(meta', k)) = get_iv_size(cfg)
                 /\ is_all_zeros(SlotIV(meta', k))
           /\ ~is_all_zeros(SlotIV(meta', last'.arg \div cfg.block_size))]_vars

\* C12, amended: such a write leaves a non-zero IV in the slot of block 0
\* (resize zero-fills the whole block the old end lies in), all-zero IV
\* slots for blocks 1..n-1, a non-zero IV in the slot of block n, and
\* nothing behind it.
C12_SparseWriteSlots_Amended ==
    [][(/\ cfg.kind = "gcm"
        /\ cfg.sparse
        /\ Len(data) = 0
        /\ last'.op = "write"
        /\ last'.arg >= cfg.block_size
        /\ last'.arg % cfg.block_size = 0
        /\ Len(data') = last'.arg + 1) =>
           /\ Len(SlotIV(meta', 0)) = get_iv_size(cfg)
           /\ ~is_all_zeros(SlotIV(meta', 0))
           /\ \A k \in 1..(last'.arg \div cfg.block_size) - 1 :
                 /\ Len(SlotIV(meta', k)) = get_iv_size(cfg)
                 /\ is_all_zeros(SlotIV(meta', k))
           /\ Len(SlotIV(meta', last'.arg \div cfg.block_size)) = get_iv_size(cfg)
           /\ ~is_all_zeros(SlotIV(meta', last'.arg \div cfg.block_size))
           /\ Len(meta') = hmac_length + meta_position_for_iv(
                                             cfg, (last'.arg \div cfg.block_size) + 1)]_vars

\* C12's case: one byte was written three blocks past the start of a sparse
\* stream that holds nothing else
C12_Witness ==
    /\ cfg.kind = "gcm"
    /\ cfg.sparse
    /\ last.op = "write"
    /\ last.arg = 3 * cfg.block_size
    /\ Len(data) = last.arg + 1
    /\ enc = {0, 3}
    /\ is_all_zeros(SlotIV(meta, 1))
    /\ is_all_zeros(SlotIV(meta, 2))

\* C13: whenever the IV slot of block k is all-zero, decrypt of block k
\* returns zeros for the whole length, whatever the ciphertext and the tag
\* bytes are, with check enabled or not, and throws nothing.
C13_ZeroIVDecryptsToZeros ==
    cfg.kind = "gcm" =>
        \A k \in 0..MaxSSize, len \in 1..cfg.block_size, b \in TamperBytes,
           tag \in TamperBytes, ch \in BOOLEAN :
            (/\ Len(meta) >= hmac_length + meta_position_for_iv(cfg, k + 1)
             /\ is_all_zeros(SlotIV(meta, k))) =>
                AESGCM_decrypt(
                    [cfg EXCEPT !.check = ch],
                    [Now EXCEPT !.meta[hmac_length + meta_position_for_iv(cfg, k + 1)]
                                    = Cell(tag)],
                    k, [i \in 1..len |-> b]).out = [i \in 1..len |-> 0]
                /\ ~Failed(AESGCM_decrypt(
                    [cfg EXCEPT !.check = ch],
                    [Now EXCEPT !.meta[hmac_length + meta_position_for_iv(cfg, k + 1)]
                                    = Cell(tag)],
                    k, [i \in 1..len |-> b]).S)

\* C13's case: a read went over a whole block whose IV slot is all-zero
C13_Witness ==
    /\ cfg.kind = "gcm"
    /\ last.op = "read"
    /\ last.err = "none"
    /\ last.rc = Len(data)
    /\ \E k \in 0..MaxSSize :
          /\ (k + 1) * cfg.block_size <= Len(data)
          /\ Len(SlotIV(meta, k)) = get_iv_size(cfg)
          /\ is_all_zeros(SlotIV(meta, k))

----------------------------------------------------------------------------
(* The header of an AES-GCM stream beside its data operations (SpecHeader) *)

\* largest size or offset a client uses where the header is followed
MaxHdrSize == 1
HeaderBlockSizes == {1}
\* every header length up to the header size, and one past it
HeaderWriteLengths == 0..get_header_size + 1

HeaderConfigs ==
    {[c EXCEPT !.block_size = b, !.tapes = FlushTapes] :
        c \in GCMConfigs, b \in HeaderBlockSizes}

\* somebody changes one byte of the stored encrypted header (its IV, its tag
\* or its ciphertext) behind the open handle's back
TamperHeader ==
    \E pos \in 0..get_encrypted_header_size(cfg) - 1, b \in TamperBytes :
        /\ tamper = -1
        /\ hdr # <<>>
        /\ meta[hmac_length + pos + 1] # Cell(b)
        /\ meta' = [meta EXCEPT ![hmac_length + pos + 1] = Cell(b)]
        /\ tamper' = pos
        /\ last' = [NoOp EXCEPT !.op = "tamper", !.arg = pos]
        /\ UNCHANGED <<cfg, hdr, conf, data, is_dirty, enc, ref, expect>>

InitHeader ==
    /\ cfg \in HeaderConfigs
    /\ InitStores

NextHeader ==
    \/ WriteHeaderOf(HeaderWriteLengths, DataBytes) \/ ReadHeader
    \/ Write(MaxHdrSize) \/ Read(MaxHdrSize) \/ Resize(MaxHdrSize)
    \/ Flush \/ FlushHeader \/ TamperHeader

SpecHeader == InitHeader /\ [][NextHeader]_vars

\* read_header returned true and handed out these bytes
HeaderIs(r, want) == r.ret /\ ReadIs(r, want)

\* the stored encrypted header carries the tag of its IV and ciphertext
\* under the data key and the identifier
HeaderAuthentic(c, buffer) ==
    /\ Len(buffer) = get_encrypted_header_size(c)
    /\ aes_gcm_decrypt(
           c.key, SubSeq(buffer, 1, get_iv_size(c)), c.id,
           SubSeq(buffer, get_iv_size(c) + 1, get_meta_size(c)),
           [i \in 1..get_header_size |-> CellByte(buffer[get_meta_size(c) + i])]
       ).success

\* C14: once write_header(in, len <= H) has succeeded, whatever data writes,
\* reads, resizes (resize(0) too), flushes and flush_header follow, every
\* read_header(out, m) with m <= H returns true and hands out the first m
\* bytes of in padded with zeros to H.
C14_HeaderSurvivesDataOperations ==
    (hdr # <<>> /\ tamper = -1) =>
        \A m \in 0..get_header_size :
            HeaderIs(read_header(cfg, Now, m), SubSeq(hdr, 1, m))

\* a header shorter than H with a non-zero byte was written, data was written
\* after it, and flush_header has just run
C14_Witness ==
    /\ last.op = "flush_header"
    /\ ~is_dirty
    /\ hdr = <<2, 0>>
    /\ Len(data) = MaxHdrSize
    /\ enc # {}

\* C15: read_header and write_header with a length above H fail with
\* InvalidArgument and change neither the meta stream, nor its dirty flag,
\* nor the data stream.
C15_HeaderLengthOverflow ==
    [][(last'.op \in {"read_header", "write_header"} /\ last'.arg > get_header_size)
           => (last'.err = "InvalidArgument" /\ UNCHANGED <<data, meta, is_dirty>>)]_vars

\* write_header with a length of H + 1 has just failed on a stream whose
\* meta stream holds a header and is clean
C15_Witness ==
    /\ last.op = "write_header"
    /\ last.arg = get_header_size + 1
    /\ last.err = "InvalidArgument"
    /\ hdr # <<>>
    /\ ~is_dirty
    /\ Len(meta) >= hmac_length + get_encrypted_header_size(cfg)

\* C16: with check enabled, a stored encrypted header that does not
\* authenticate under the data key and identifier makes read_header fail
\* with MessageVerification.
C16_TamperedHeaderFailsVerification ==
    (/\ cfg.check
     /\ hdr # <<>>
     /\ ~HeaderAuthentic(cfg, HMACStream_read(Now, 0, get_encrypted_header_size(cfg))))
        => \A m \in 0..get_header_size :
               read_header(cfg, Now, m).S.err = "MessageVerification"

----------------------------------------------------------------------------
(* The limit on the number of blocks (SpecBlocks) *)

\* largest size or offset a client uses where the block limit is in reach
MaxBSize == 4
\* max_block_number, scaled down so that streams of the model reach it
ScaledMaxBlock == 1
LimitBlockSizes == {1, 2}

LimitConfigs ==
    {[c EXCEPT !.block_size = b, !.max_block = ScaledMaxBlock, !.tapes = FlushTapes] :
        c \in GCMConfigs, b \in LimitBlockSizes}

InitBlocks ==
    /\ cfg \in LimitConfigs
    /\ InitStores

NextBlocks == Write(MaxBSize) \/ Read(MaxBSize) \/ Resize(MaxBSize)

SpecBlocks == InitBlocks /\ [][NextBlocks]_vars

\* ceil(size() / B)
NumBlocks(c, S) == (CryptStream_size(S) + c.block_size - 1) \div c.block_size

\* C17: whatever writes and resizes succeeded or failed, an AES-GCM stream
\* holds at most max_block_number blocks, and a write or resize whose end
\* lies beyond that many blocks fails with StreamTooLong.
C17_BlockCountBounded ==
    /\ NumBlocks(cfg, Now) <= cfg.max_block
    /\ (last.op = "resize" /\ last.arg > cfg.max_block * cfg.block_size)
           => last.err = "StreamTooLong"

\* what encrypt and decrypt of a non-empty block have to throw
BlockNumberAnswer(c, block_number) ==
    IF block_number > c.max_block THEN "StreamTooLong" ELSE "none"

\* the ciphertext of a block in the data store
StoredBlock(block_number) ==
    POSIX_read(data, block_number * cfg.block_size, cfg.block_size)

\* C26: encrypt and decrypt of a non-empty block reject exactly the block
\* numbers above max_block_number (2^30): block max_block_number itself is
\* encrypted and decrypted, block max_block_number + 1 fails with
\* StreamTooLong.
C26_BlockNumberLimit ==
    /\ ~check_block_number_fails([cfg EXCEPT !.max_block = max_block_number],
                                 max_block_number)
    /\ check_block_number_fails([cfg EXCEPT !.max_block = max_block_number],
                                max_block_number + 1)
    /\ \A b \in 0..cfg.max_block + 2, rnd \in cfg.tapes :
           AESGCM_encrypt(cfg, CS(rnd), b, <<1>>).S.err = BlockNumberAnswer(cfg, b)
    /\ \A b \in 0..MaxBSize + 1 :
           Len(StoredBlock(b)) > 0 =>
               AESGCM_decrypt(cfg, Now, b, StoredBlock(b)).S.err
                   = BlockNumberAnswer(cfg, b)
    /\ (last.op \in {"write", "read", "resize"} /\ last.err = "StreamTooLong") =>
           last.erroff > cfg.max_block * cfg.block_size

\* a write has just been refused at block max_block_number + 1, after it
\* encrypted block max_block_number
C26_Witness ==
    /\ last.op = "write"
    /\ last.err = "StreamTooLong"
    /\ last.erroff = (cfg.max_block + 1) * cfg.block_size
    /\ cfg.max_block \in enc
    /\ AESGCM_decrypt(cfg, Now, cfg.max_block, StoredBlock(cfg.max_block)).S.err = "none"
    /\ Len(AESGCM_decrypt(cfg, Now, cfg.max_block, StoredBlock(cfg.max_block)).out) > 0

----------------------------------------------------------------------------
(* The keyed configuration (sources/commands.cpp): generate_config,        *)
(* parse_config and the password rotation of chpass_filesys (SpecConfig).  *)
(* Keys, salts and IVs are one byte long; hex strings are sequences of     *)
(* digits; a JSON object is a record.                                      *)

VERSION_HEADER == "version=1"
CONFIG_IV_LENGTH == 1
\* the number of values of an unsigned (2^32, scaled to 2^20)
UnsignedRange == 1048576
\* the round count generate_config uses for rounds = 0
DefaultRounds == 400000
\* the block length of HMAC-SHA256 (64, scaled down)
HMACBlock == 2

\* a JSON number converted to unsigned, to int
ToUnsigned(n) == n % UnsignedRange
ToInt(n) ==
    IF ToUnsigned(n) >= UnsignedRange \div 2 THEN ToUnsigned(n) - UnsignedRange
    ELSE ToUnsigned(n)

\* HMAC extends a key shorter than its block with zero bytes (RFC 2104)
HMACKey(password) ==
    [i \in 1..HMACBlock |-> IF i <= Len(password) THEN password[i] ELSE 0]

RECURSIVE KeyCode(_)
KeyCode(k) == IF Len(k) = 0 THEN 0 ELSE Head(k) + (4 * KeyCode(Tail(k)))

\* PBKDF2-HMAC-SHA256: a different key for every (HMAC key, rounds, salt)
nettle_pbkdf2_hmac_sha256(password, rounds, salt) ==
    (((KeyCode(salt) * UnsignedRange) + rounds) * 16) + KeyCode(HMACKey(password))

\* hexify: two digits for every byte (a tag byte keeps its symbolic value)
HexHi(cell) == IF cell[1] = "b" THEN <<"x", cell[2] \div 16>> ELSE <<"hi", cell>>
HexLo(cell) == IF cell[1] = "b" THEN <<"x", cell[2] % 16>> ELSE <<"lo", cell>>
hexify(cells) ==
    [i \in 1..2 * Len(cells) |->
        IF i % 2 = 1 THEN HexHi(cells[(i + 1) \div 2]) ELSE HexLo(cells[i \div 2])]

ParseHexPair(hi, lo) ==
    IF hi[1] = "x" THEN Cell((hi[2] * 16) + lo[2]) ELSE hi[2]
parse_hex(hex, len) == [i \in 1..len |-> ParseHexPair(hex[(2 * i) - 1], hex[2 * i])]

Bytes(cells) == [i \in 1..Len(cells) |-> CellByte(cells[i])]

\* generate_config, from the JSON object on
generate_config_json(version, rounds, salt, iv, e, block_size, iv_size) ==
    IF version = 2
    THEN [version |-> version, iterations |-> rounds,
          salt |-> hexify(Cells(salt)),
          encrypted_key |-> [IV |-> hexify(Cells(iv)), MAC |-> hexify(e.mac),
                             key |-> hexify(Cells(e.out))],
          block_size |-> block_size, iv_size |-> iv_size]
    ELSE [version |-> version, iterations |-> rounds,
          salt |-> hexify(Cells(salt)),
          encrypted_key |-> [IV |-> hexify(Cells(iv)), MAC |-> hexify(e.mac),
                             key |-> hexify(Cells(e.out))]]

generate_config_rounds(version, master_key, salt, password, block_size, iv_size, rounds, iv) ==
    generate_config_json(
        version, rounds, salt, iv,
        aes_gcm_encrypt(nettle_pbkdf2_hmac_sha256(password, rounds, salt),
                        Cells(iv), VERSION_HEADER, master_key),
        block_size, iv_size)

\* iv is what generate_random fills the IV with
generate_config(version, master_key, salt, password, block_size, iv_size, rounds, iv) ==
    generate_config_rounds(version, master_key, salt, password, block_size, iv_size,
                           IF rounds = 0 THEN DefaultRounds ELSE rounds, iv)

\* nlohmann::json::dump: the members in key order, then the closing brace
ConfigKeys == <<"block_size", "encrypted_key", "iterations", "iv_size", "salt", "version">>
dump_keys(j) == SelectSeq(ConfigKeys, LAMBDA k : k \in DOMAIN j)
dump_members(j, keys) == [i \in 1..Len(keys) |-> <<keys[i], j[keys[i]]>>]
dump(j) == dump_members(j, dump_keys(j)) \o << <<"}">> >>

\* nlohmann::json::parse of a text that dump wrote, or of a prefix of one
json_parse_members(text) ==
    [k \in {text[i][1] : i \in 1..Len(text)} |->
        (CHOOSE i \in 1..Len(text) : text[i][1] = k) ]
json_parse_values(text, at) == [k \in DOMAIN at |-> text[at[k]][2]]
json_parse(text) ==
    IF text = <<>> \/ text[Len(text)] # <<"}">> THEN NoJson
    ELSE json_parse_values(text, json_parse_members(SubSeq(text, 1, Len(text) - 1)))

\* a regular file with this content
File(text) == [exists |-> TRUE, text |-> text]

parse_config_decrypted(out, d) ==
    [out EXCEPT !.ret = d.success, !.master_key = d.out, !.derived = TRUE]

parse_config_key_NoTag(config, password, out) ==
    [parse_config_decrypted(
         out,
         aes_gcm_decrypt(
             nettle_pbkdf2_hmac_sha256(password, ToUnsigned(config.iterations),
                                       Bytes(parse_hex(config.salt, 1))),
             parse_hex(config.encrypted_key.IV, CONFIG_IV_LENGTH),
             VERSION_HEADER,
             parse_hex(config.encrypted_key.MAC, get_mac_size),
             Bytes(parse_hex(config.encrypted_key.key, 1))))
        EXCEPT !.ret = TRUE]

\* parse_config, from the read of "iterations" on
parse_config_key(config, password, out) ==
    parse_config_decrypted(
        out,
        aes_gcm_decrypt(
            nettle_pbkdf2_hmac_sha256(password, ToUnsigned(config.iterations),
                                      Bytes(parse_hex(config.salt, 1))),
            parse_hex(config.encrypted_key.IV, CONFIG_IV_LENGTH),
            VERSION_HEADER,
            parse_hex(config.encrypted_key.MAC, get_mac_size),
            Bytes(parse_hex(config.encrypted_key.key, 1))))

\* the version 2 branch: config.at throws when the key is missing
parse_config_stored(config, password, out) ==
    IF "block_size" \notin DOMAIN config
    THEN [out EXCEPT !.err = "out_of_range"]
    ELSE IF "iv_size" \notin DOMAIN config
    THEN [out EXCEPT !.err = "out_of_range",
                     !.block_size = ToUnsigned(config.block_size)]
    ELSE parse_config_key(config, password,
                          [out EXCEPT !.block_size = ToUnsigned(config.block_size),
                                      !.iv_size = ToUnsigned(config.iv_size)])

parse_config_version(config, password, out, version) ==
    IF version = 1
    THEN parse_config_key(config, password,
                          [out EXCEPT !.block_size = 4096, !.iv_size = 32])
    ELSE IF version = 2 THEN parse_config_stored(config, password, out)
    ELSE [out EXCEPT !.err = "InvalidArgument"]

\* out: the caller's master_key, block_size and iv_size before the call
parse_config(config, password, out) ==
    parse_config_version(config, password, out, ToUnsigned(config.version))

chpass_filesys_generate_DefaultSizes(config_json, r, new_password, rounds, salt, iv) ==
    generate_config(ToInt(config_json.version), r.master_key, salt, new_password,
                    4096, 12, ToUnsigned(rounds), iv)

chpass_filesys_generate(config_json, r, new_password, rounds, salt, iv) ==
    generate_config(ToInt(config_json.version), r.master_key, salt, new_password,
                    r.block_size, r.iv_size, ToUnsigned(rounds), iv)

chpass_filesys_parsed(config_json, r, new_password, rounds, salt, iv) ==
    IF r.err # "none" THEN [err |-> r.err, json |-> config_json, parsed |-> r]
    ELSE IF ~r.ret THEN [err |-> "runtime_error", json |-> config_json, parsed |-> r]
    ELSE [err |-> "none", parsed |-> r,
          json |-> chpass_filesys_generate(config_json, r, new_password, rounds, salt, iv)]

\* the new .securefs.json (the old one if chpass throws) and the exception
chpass_filesys(config_json, password, new_password, rounds, salt, iv) ==
    chpass_filesys_parsed(config_json, parse_config(config_json, password, NoOut),
                          new_password, rounds, salt, iv)

\* what the callers pass in
ConfigVersions == {1, 2}
ConfigBlockSizes == {1024, 4096}
ConfigIVSizes == {12, 32}
ConfigRounds == {0, 1000}
MasterKeys == {<<1>>, <<2>>}
Passwords == {<<1>>, <<1, 0>>, <<2>>}
RandomKeys == {<<b>> : b \in RandomBytes}
\* the version numbers a config file can be made to carry
EditedVersions == {0, 1, 2, 3, UnsignedRange + 1}

NoStream == [kind |-> "none"]

GenerateConfigOf(master_keys, passwords, block_sizes, iv_sizes, all_rounds) ==
    \E version \in ConfigVersions, master_key \in master_keys, salt \in RandomKeys,
       iv \in RandomKeys, password \in passwords, block_size \in block_sizes,
       iv_size \in iv_sizes, rounds \in all_rounds :
        /\ conf.json = NoJson
        /\ conf' = [json |-> generate_config(version, master_key, salt, password,
                                             block_size, iv_size, rounds, iv),
                    master_key |-> master_key, password |-> password,
                    block_size |-> block_size, iv_size |-> iv_size,
                    rnd |-> <<salt, iv>>, tried |-> <<>>, out |-> NoOut,
                    fs |-> [NoFiles EXCEPT ![CONFIG_FILE_NAME] =
                               File(dump(generate_config(version, master_key, salt,
                                                         password, block_size,
                                                         iv_size, rounds, iv)))],
                    rot |-> NoRotation, cmd |-> conf.cmd]
        /\ last' = [NoOp EXCEPT !.op = "generate_config", !.arg = version]
        /\ UNCHANGED <<cfg, hdr, data, meta, is_dirty, enc, ref, expect, tamper>>

GenerateConfig ==
    GenerateConfigOf(MasterKeys, Passwords, ConfigBlockSizes, ConfigIVSizes, ConfigRounds)

ParseConfigDone(password, r) ==
    /\ conf' = [conf EXCEPT !.tried = password, !.out = r]
    /\ last' = [NoOp EXCEPT !.op = "parse_config", !.err = r.err,
                            !.rc = IF r.ret THEN 1 ELSE 0]

ParseConfig ==
    \E password \in Passwords :
        /\ conf.json # NoJson
        /\ ParseConfigDone(password, parse_config(conf.json, password, NoOut))
        /\ UNCHANGED <<cfg, hdr, data, meta, is_dirty, enc, ref, expect, tamper>>

ChpassDone(c, password, new_password, salt, iv) ==
    /\ conf' = [conf EXCEPT
                   !.json = c.json,
                   !.fs[CONFIG_FILE_NAME] = File(dump(c.json)),
                   !.password = IF c.err = "none" THEN new_password ELSE @,
                   !.rnd = IF c.err = "none" THEN <<salt, iv>> ELSE @,
                   !.tried = password,
                   !.out = c.parsed]
    /\ last' = [NoOp EXCEPT !.op = "chpass", !.err = c.err]

Chpass ==
    \E password \in Passwords, new_password \in Passwords, rounds \in ConfigRounds,
       salt \in RandomKeys, iv \in RandomKeys :
        /\ tamper = -1
        /\ conf.json # NoJson
        /\ ChpassDone(chpass_filesys(conf.json, password, new_password, rounds, salt, iv),
                      password, new_password, salt, iv)
        /\ UNCHANGED <<cfg, hdr, data, meta, is_dirty, enc, ref, expect, tamper>>

\* somebody edits the version number in .securefs.json
EditVersion ==
    \E version \in EditedVersions :
        /\ tamper = -1
        /\ conf.json # NoJson
        /\ conf.json.version # version
        /\ conf' = [conf EXCEPT !.json.version = version,
                                !.fs[CONFIG_FILE_NAME] =
                                    File(dump([conf.json EXCEPT !.version = version]))]
        /\ tamper' = 0
        /\ last' = [NoOp EXCEPT !.op = "edit", !.arg = version]
        /\ UNCHANGED <<cfg, hdr, data, meta, is_dirty, enc, ref, expect>>

InitConfig ==
    /\ cfg = NoStream
    /\ InitStores

NextConfig == GenerateConfig \/ ParseConfig \/ Chpass \/ EditVersion

SpecConfig == InitConfig /\ [][NextConfig]_vars

\* parse_config threw nothing, returned `same`, and on success handed out
\* the master key (and for version 2 the sizes) the config was generated from
ConfigParses(r, same) ==
    /\ r.err = "none"
    /\ r.ret = same
    /\ same => /\ r.master_key = conf.master_key
               /\ conf.json.version = 2 =>
                      (r.block_size = conf.block_size /\ r.iv_size = conf.iv_size)

\* C18: parse_config of a generated config succeeds with the password it was
\* generated with and yields the same master key (for version 2 the same
\* block and IV size too); with any other password it returns false and
\* throws nothing.
C18_ConfigRoundTrip ==
    (conf.json # NoJson /\ tamper = -1) =>
        \A password \in Passwords :
            ConfigParses(parse_config(conf.json, password, NoOut),
                         password = conf.password)

\* C18 as the code has it: the passwords that succeed are those with the
\* HMAC key of the generating password (the password itself, and those that
\* differ from it in trailing zero bytes only); every other one gets false.
C18_ConfigRoundTrip_Amended ==
    (conf.json # NoJson /\ tamper = -1) =>
        \A password \in Passwords :
            ConfigParses(parse_config(conf.json, password, NoOut),
                         HMACKey(password) = HMACKey(conf.password))

\* a version 2 config generated with rounds = 0 has just been parsed with a
\* password of another HMAC key, and parse_config returned false
C18_Witness ==
    /\ last.op = "parse_config"
    /\ last.err = "none"
    /\ last.rc = 0
    /\ tamper = -1
    /\ conf.json.version = 2
    /\ conf.json.iterations = DefaultRounds
    /\ HMACKey(conf.tried) # HMACKey(conf.password)

\* C19: parse_config takes version 1 (sizes 4096 and 32 whatever else the
\* config holds) and version 2 (the stored sizes); with any other version it
\* throws InvalidArgument before any key is derived and without writing the
\* master key.
C19_ParseConfigVersions ==
    last.op = "parse_config" =>
        IF conf.json.version = 1
        THEN conf.out.err = "none" /\ conf.out.block_size = 4096 /\ conf.out.iv_size = 32
        ELSE IF conf.json.version = 2
        THEN ("block_size" \in DOMAIN conf.json /\ "iv_size" \in DOMAIN conf.json) =>
                 /\ conf.out.err = "none"
                 /\ conf.out.block_size = conf.json.block_size
                 /\ conf.out.iv_size = conf.json.iv_size
        ELSE /\ conf.out.err = "InvalidArgument"
             /\ ~conf.out.derived
             /\ conf.out.master_key = NoOut.master_key

\* what a rotation keeps, and what it renews (rnd: the salt and IV drawn)
ChpassKeeps(old, new, rOld, rNew, rnd) ==
    /\ rNew.err = "none" /\ rNew.ret
    /\ rNew.master_key = rOld.master_key
    /\ rNew.block_size = rOld.block_size
    /\ rNew.iv_size = rOld.iv_size
    /\ new.version = old.version
    /\ new.salt = hexify(Cells(rnd[1]))
    /\ new.encrypted_key.IV = hexify(Cells(rnd[2]))

\* C20: after a successful chpass the new config parses with the new
\* password to the master key, block size and IV size the old config parsed
\* to with the old password, has the old format version, and carries the
\* salt and the IV drawn during the rotation.
C20_ChpassKeepsMasterKey ==
    [][(last'.op = "chpass" /\ last'.err = "none") =>
           ChpassKeeps(conf.json, conf'.json,
                       parse_config(conf.json, conf'.tried, NoOut),
                       parse_config(conf'.json, conf'.password, NoOut),
                       conf'.rnd)]_vars

\* a version 2 config with sizes other than the defaults has just been
\* rotated to another password, with a salt other than the one it had
C20_Witness ==
    /\ last.op = "chpass"
    /\ last.err = "none"
    /\ conf.json.version = 2
    /\ conf.json.block_size = 1024
    /\ conf.json.iv_size = 32
    /\ HMACKey(conf.password) # HMACKey(conf.tried)
    /\ conf.out.master_key = conf.master_key

----------------------------------------------------------------------------
(* The order in which a handle flushes its two stores *)

NextClose ==
    \/ Write(MaxFSize) \/ Read(MaxFSize) \/ Resize(MaxFSize)
    \/ WriteHeader \/ Flush \/ FlushHeader \/ Close

SpecClose == InitFlush /\ [][NextClose]_vars

Logged(log, call) == \E i \in DOMAIN log : log[i] = call

\* the data store was flushed before anything was done to the tag of the
\* meta store
DataFlushedFirst(log) ==
    \A i \in 1..Len(log) :
        log[i] \in {"meta.write", "meta.flush"} =>
            \E j \in 1..i - 1 : log[j] = "data.flush"

\* flush() flushed the data store, and wrote and flushed the tag only
\* after that
FlushOrdersStores ==
    [][last'.op = "flush" =>
           /\ Logged(flush(cfg, Now).log, "data.flush")
           /\ is_dirty => Logged(flush(cfg, Now).log, "meta.flush")
           /\ DataFlushedFirst(flush(cfg, Now).log)]_vars

\* what the operation of this step did to the stores
StepLog ==
    IF last'.op = "flush" THEN flush(cfg, Now).log
    ELSE IF last'.op = "flush_header" THEN flush_header(cfg, Now).log
    ELSE IF last'.op = "close" THEN AESGCM_dtor(cfg, Now).log
    ELSE <<>>

\* C22: every flush() of an AES-GCM stream flushes the data store before
\* the tag of the meta stream is recomputed and written, no flush() writes
\* or flushes the tag without having flushed the data store first, and
\* flush_header is the only operation of a handle that flushes the meta
\* stream alone.
C22_DataFlushedBeforeMeta ==
    [][last'.op # "flush_header" => DataFlushedFirst(StepLog)]_vars

----------------------------------------------------------------------------
(* What a write past the end and a resize do to the blocks at the old and  *)
(* at the new end of a stream                                              *)

\* the longest stream of this section
MaxGSize == 3

\* resize, with the size the stream had noted in last.rc
ResizeFromDone(S, n) ==
    /\ Commit(S)
    /\ ref' = POSIX_resize(ref, 0, n)
    /\ expect' = IF Failed(S) THEN expect ELSE POSIX_resize(expect, 0, n)
    /\ last' = Op("resize", n, S, CryptStream_size(Now))

ResizeFrom(max) ==
    \E n \in 0..max, rnd \in cfg.tapes :
        /\ tamper = -1
        /\ ResizeFromDone(resize(cfg, CS(rnd), n), n)
        /\ UNCHANGED <<cfg, hdr, conf, tamper>>

NextEnds == Write(MaxGSize) \/ Read(MaxGSize) \/ ResizeFrom(MaxGSize)

SpecEnds == InitSparse /\ [][NextEnds]_vars

\* after write(in, off, len) past the end: the size, and zeros in the gap
WrittenPastEnd(S, off, len) ==
    /\ ~Failed(S)
    /\ CryptStream_size(S) = Max(Len(data), off + len)
    /\ CryptStream_size(S) >= off
    /\ ReadIs(CryptStream_read(cfg, Rewind(S, <<0>>), Len(data), off - Len(data)),
              [i \in 1..off - Len(data) |-> 0])

BlockTagged(d, m, k) ==
    /\ Len(SlotIV(m, k)) = get_iv_size(cfg)
    /\ ~is_all_zeros(SlotIV(m, k))
    /\ POSIX_read(m, meta_position_for_iv(cfg, k) + hmac_length + get_iv_size(cfg),
                  get_mac_size)
           = GCM_tag(cfg.key, SlotIV(m, k), cfg.id,
                     POSIX_read(d, k * cfg.block_size, cfg.block_size))

\* resize(n) to a shorter stream whose end lies inside block k: the block
\* was written anew before the data store was cut, it holds residue bytes
\* under a tag of just these, and it reads as its old first residue bytes
ShrunkInsideBlock(S, n, k, residue) ==
    /\ S.log = <<"data.write", "data.resize">>
    /\ Len(POSIX_read(S.data, k * cfg.block_size, cfg.block_size)) = residue
    /\ BlockTagged(S.data, S.meta, k)
    /\ ReadIs(read_block(cfg, Rewind(S, <<0>>), k),
              CryptStream_read(cfg, Now, k * cfg.block_size, residue).out)

\* resize(n) to a shorter stream that ends with block k - 1: nothing was
\* encrypted, the blocks that stay and their records are as they were
ShrunkAtBoundary(S, n, k) ==
    /\ S.log = <<"data.resize">>
    /\ S.rpos = 0
    /\ S.data = SubSeq(data, 1, n)
    /\ S.meta = SubSeq(meta, 1, hmac_length + meta_position_for_iv(cfg, k))

\* C29: when resize(n) shrinks an AES-GCM stream to a size that is not a
\* multiple of B, the last block is encrypted anew over exactly its first
\* n mod B plaintext bytes before the data store is truncated, and with check
\* enabled a read of that block succeeds, without MessageVerification, and
\* returns these bytes; when n is a multiple of B no block is encrypted anew.
C29_ShrinkReencryptsLastBlock ==
    (tamper = -1 /\ cfg.kind = "gcm") =>
        \A n \in 0..MaxGSize, rnd \in cfg.tapes :
            n < Len(data) =>
                /\ ~Failed(resize(cfg, CS(rnd), n))
                /\ CryptStream_size(resize(cfg, CS(rnd), n)) = n
                /\ IF n % cfg.block_size # 0
                   THEN ShrunkInsideBlock(resize(cfg, CS(rnd), n), n,
                                          n \div cfg.block_size, n % cfg.block_size)
                   ELSE ShrunkAtBoundary(resize(cfg, CS(rnd), n), n,
                                         n \div cfg.block_size)

\* a stream of blocks of two bytes has just been cut from more than one
\* block to one byte: block 0 is one byte long, tagged as that, and the
\* byte is one that was written
C29_Witness ==
    /\ cfg.kind = "gcm"
    /\ cfg.check
    /\ cfg.block_size = 2
    /\ last.op = "resize"
    /\ last.err = "none"
    /\ last.arg = 1
    /\ last.rc > cfg.block_size
    /\ CryptStream_size(Now) = last.arg
    /\ BlockTagged(data, meta, 0)
    /\ ReadIs(read_block(cfg, Now, 0), <<1>>)

\* block k of the stores d and m is a hole: B zero bytes in the data store
\* under an all-zero IV slot
BlockIsHole(d, m, k) ==
    /\ POSIX_read(d, k * cfg.block_size, cfg.block_size)
           = [i \in 1..cfg.block_size |-> 0]
    /\ Len(SlotIV(m, k)) = get_iv_size(cfg)
    /\ is_all_zeros(SlotIV(m, k))

\* the bytes block k holds in the data store d
BlockLength(d, k) == Len(POSIX_read(d, k * cfg.block_size, cfg.block_size))

\* resize from s to n over holes: block old_block is encrypted up to its
\* end, the blocks between are holes and read as zeros, block new_block is
\* encrypted up to n
GrownOverHoles(S, n, old_block, new_block) ==
    /\ BlockTagged(S.data, S.meta, old_block)
    /\ BlockLength(S.data, old_block) = cfg.block_size
    /\ \A k \in old_block + 1..new_block - 1 :
           /\ BlockIsHole(S.data, S.meta, k)
           /\ k \notin S.enc
           /\ ReadIs(read_block(cfg, Rewind(S, <<0>>), k),
                     [i \in 1..cfg.block_size |-> 0])
    /\ n % cfg.block_size # 0 =>
           /\ BlockTagged(S.data, S.meta, new_block)
           /\ BlockLength(S.data, new_block) = n % cfg.block_size
    /\ S.log = [i \in 1..(IF n % cfg.block_size # 0 THEN 3 ELSE 2) |->
                   IF i = (IF n % cfg.block_size # 0 THEN 3 ELSE 2)
                   THEN "data.resize" ELSE "data.write"]

\* resize from s to n by encryption: every block that holds a byte of
\* [s, n) is encrypted
GrownByEncryption(S, s, n) ==
    \A k \in s \div cfg.block_size..(n - 1) \div cfg.block_size :
        BlockTagged(S.data, S.meta, k)

\* what resize from s to a longer n leaves
Grown(S, s, n) ==
    /\ ~Failed(S)
    /\ CryptStream_size(S) = n
    /\ ReadIs(CryptStream_read(cfg, Rewind(S, <<0>>), s, n - s),
              [i \in 1..n - s |-> 0])
    /\ IF cfg.sparse /\ s \div cfg.block_size < n \div cfg.block_size
       THEN GrownOverHoles(S, n, s \div cfg.block_size, n \div cfg.block_size)
       ELSE GrownByEncryption(S, s, n)

\* C30: on a sparse host, when resize grows an AES-GCM stream from s to n
\* with floor(s/B) < floor(n/B), every block strictly between these two is
\* left unencrypted under an all-zero IV slot and reads as B zero bytes,
\* block floor(s/B) is zero-filled to its end and block floor(n/B) up to n;
\* on a host that is not sparse, or when both sizes lie in one block, the
\* whole of [s, n) is zero-filled by encryption.
C30_SparseGrowLeavesHoles ==
    (tamper = -1 /\ cfg.kind = "gcm") =>
        \A n \in 1..MaxGSize, rnd \in cfg.tapes :
            n > Len(data) => Grown(resize(cfg, CS(rnd), n), Len(data), n)

\* a sparse stream of one block of one byte has just been resized to three
\* bytes: block 1 is encrypted, block 2 is a hole
C30_Witness ==
    /\ cfg.kind = "gcm"
    /\ cfg.sparse
    /\ cfg.block_size = 1
    /\ last.op = "resize"
    /\ last.err = "none"
    /\ last.rc = 1
    /\ last.arg = 3
    /\ BlockTagged(data, meta, 0)
    /\ BlockTagged(data, meta, 1)
    /\ BlockIsHole(data, meta, 2)
    /\ enc = {0, 1}

----------------------------------------------------------------------------
(* Handles opened over stores that another handle wrote: with or without   *)
(* check, under another identifier or another meta key, and over a meta    *)
(* store that was cut short                                                *)

\* the longest stream of this section
MaxOSize == 1
HandleConfigs == {c \in FlushConfigs : c.block_size = 1 /\ c.sparse}
HandleIds == {id_ee, id_ee + 1}
HandleKeys == {key_ff, key_ff + 1}

\* somebody cuts the meta store short behind the handle's back
TruncateMeta ==
    \E n \in 0..MaxOSize + hmac_length + get_header_size :
        /\ tamper = -1
        /\ cfg.kind = "gcm"
        /\ n < Len(meta)
        /\ meta' = SubSeq(meta, 1, n)
        /\ tamper' = n
        /\ last' = [NoOp EXCEPT !.op = "truncate", !.arg = n]
        /\ UNCHANGED <<cfg, hdr, conf, data, is_dirty, enc, ref, expect>>

\* the constructor of AESGCMCryptStream: that of its member m_metastream
AESGCM_ctor(c, m) == HMACStream_ctor(c.meta_key, c.id, m, c.check)

\* the handle the model goes on with: the new one if it could be opened
Reopened(c, r) ==
    /\ cfg' = IF r = "ok" THEN c ELSE cfg
    /\ last' = [NoOp EXCEPT !.op = "open", !.arg = c.id, !.rc = c.meta_key,
                            !.erroff = IF c.check THEN 1 ELSE 0, !.err = r]

\* a second handle is opened over the two stores of a flushed one: without
\* check, or with check and any identifier and meta key
Reopen ==
    \E check \in BOOLEAN, id \in HandleIds, key \in HandleKeys :
        /\ cfg.kind = "gcm"
        /\ ~is_dirty
        /\ check \/ (id = cfg.id /\ key = cfg.meta_key)
        /\ Reopened([cfg EXCEPT !.check = check, !.id = id, !.meta_key = key],
                    AESGCM_ctor([cfg EXCEPT !.check = check, !.id = id,
                                            !.meta_key = key], meta))
        /\ UNCHANGED <<hdr, conf, data, meta, is_dirty, enc, ref, expect, tamper>>

\* a block is read through a handle with check = true and any identifier,
\* with the data key of the handle that wrote it
ReadBlockAsDone(r, block_number, id) ==
    last' = [Op("read_block", block_number, r.S, Len(r.out)) EXCEPT !.erroff = id]

ReadBlockAs ==
    \E id \in HandleIds, block_number \in 0..MaxOSize :
        /\ cfg.kind = "gcm"
        /\ block_number * cfg.block_size < Len(data)
        /\ ReadBlockAsDone(read_block([cfg EXCEPT !.id = id, !.check = TRUE], Now,
                                      block_number),
                           block_number, id)
        /\ UNCHANGED <<cfg, hdr, conf, data, meta, is_dirty, enc, ref, expect, tamper>>

NextHandles ==
    \/ Write(MaxOSize) \/ Read(MaxOSize) \/ Resize(MaxOSize) \/ Flush
    \/ TamperData(MaxOSize) \/ TruncateMeta \/ Reopen \/ ReadBlockAs

InitHandles ==
    /\ cfg \in HandleConfigs
    /\ InitStores

SpecHandles == InitHandles /\ [][NextHandles]_vars

\* the IV and tag record of a block, as far as the meta store holds it
BlockRecord(block_number) ==
    HMACStream_read(Now, meta_position_for_iv(cfg, block_number), get_meta_size(cfg))

BlockIV(block_number) == SubSeq(BlockRecord(block_number), 1, get_iv_size(cfg))

\* whether the tag stored for a block is the one of its ciphertext
BlockVerifies(c, block_number) ==
    aes_gcm_decrypt(c.key, BlockIV(block_number), c.id,
                    SubSeq(BlockRecord(block_number), get_iv_size(c) + 1,
                           get_meta_size(c)),
                    POSIX_read(data, block_number * c.block_size,
                               c.block_size)).success

\* the blocks the data store holds
StoredBlocks == {b \in 0..MaxOSize + 1 : b * cfg.block_size < Len(data)}

\* read_block without check: CorruptedMetaData for a short record, else
\* the whole block and no exception
UncheckedBlockRead(r, block_number) ==
    IF Len(BlockRecord(block_number)) # get_meta_size(cfg)
    THEN r.S.err = "CorruptedMetaData"
    ELSE /\ r.S.err = "none"
         /\ Len(r.out) = Len(POSIX_read(data, block_number * cfg.block_size,
                                        cfg.block_size))

\* C23: with check = false the constructor of HMACStream accepts any store
\* (one shorter than the tag included), and a block whose AES-GCM tag does
\* not verify is handed to the reader without MessageVerification; a block
\* whose IV and tag record is missing or short still fails with
\* CorruptedMetaData.
C23_UncheckedHandle ==
    /\ \A id \in HandleIds, key \in HandleKeys :
           HMACStream_ctor(key, id, meta, FALSE) = "ok"
    /\ (last.op = "open" /\ last.erroff = 0) => last.err = "ok"
    /\ ~cfg.check =>
           /\ \A b \in StoredBlocks : UncheckedBlockRead(read_block(cfg, Now, b), b)
           /\ last.op = "read" => last.err \in {"none", "CorruptedMetaData"}

\* a handle without check has just read a stream whose first block has a
\* tag that does not verify, and got bytes and no exception
C23_Witness ==
    /\ ~cfg.check
    /\ last.op = "read"
    /\ last.err = "none"
    /\ last.rc > 0
    /\ Len(BlockRecord(0)) = get_meta_size(cfg)
    /\ ~is_all_zeros(BlockIV(0))
    /\ ~BlockVerifies(cfg, 0)

\* the first hmac_length bytes of the store are the HMAC, under this key, of
\* the identifier followed by the rest of the store
TagOf(key, id, base) ==
    SubSeq(base, 1, hmac_length)
        = HMAC_Final(key, <<id, SubSeq(base, hmac_length + 1, Len(base))>>)

\* what the constructor with check = true has to answer over this store
CtorAnswers(r, key, id, base) ==
    IF Len(base) = 0 THEN r = "ok"
    ELSE IF Len(base) < hmac_length THEN r = "InvalidFormat"
    ELSE /\ r \in {"ok", "InvalidHMAC"}
         /\ r = "ok" <=> TagOf(key, id, base)

\* C24: the constructor of HMACStream with check = true succeeds, with no
\* verification, over an empty store, which gives an empty stream; it fails
\* with InvalidFormat over a store shorter than the tag; over a longer one
\* it succeeds exactly when the first bytes are the HMAC of the identifier
\* followed by the rest of the store.
C24_CtorChecksTag ==
    /\ \A id \in HandleIds, key \in HandleKeys :
           CtorAnswers(HMACStream_ctor(key, id, meta, TRUE), key, id, meta)
    /\ Len(meta) = 0 => HMACStream_size(Now) = 0
    /\ (last.op = "open" /\ last.erroff = 1) =>
           CtorAnswers(last.err, last.rc, last.arg, meta)

\* a handle with check = true has just been refused over a meta store that
\* is not empty and shorter than the tag
C24_Witness ==
    /\ last.op = "open"
    /\ last.erroff = 1
    /\ last.err = "InvalidFormat"
    /\ Len(meta) > 0
    /\ Len(meta) < hmac_length

\* the stores are as the handle flushed them: nothing pending, nothing
\* changed behind its back, and a tag written
FlushedByHandle == tamper = -1 /\ ~is_dirty /\ Len(meta) > 0

\* the block was encrypted: its record is whole and its IV is not the
\* all-zero one of a hole
BlockEncrypted(block_number) ==
    /\ Len(BlockRecord(block_number)) = get_meta_size(cfg)
    /\ ~is_all_zeros(BlockIV(block_number))

\* C25: a meta stream flushed under an identifier and a key cannot be
\* opened with check = true under another identifier with the same key,
\* nor under the same identifier with another key: the constructor fails
\* with InvalidHMAC. A data block encrypted under one identifier fails
\* with MessageVerification when it is read through a handle with another
\* identifier and the same data key.
C25_BoundToIdentifierAndKey ==
    /\ FlushedByHandle =>
           \A id \in HandleIds, key \in HandleKeys :
               HMACStream_ctor(key, id, meta, TRUE) =
                   IF id = cfg.id /\ key = cfg.meta_key THEN "ok" ELSE "InvalidHMAC"
    /\ (FlushedByHandle /\ last.op = "open" /\ last.erroff = 1
           /\ (last.arg # cfg.id \/ last.rc # cfg.meta_key)) =>
           last.err = "InvalidHMAC"
    /\ tamper = -1 =>
           \A b \in StoredBlocks, id \in HandleIds \ {cfg.id} :
               BlockEncrypted(b) =>
                   read_block([cfg EXCEPT !.id = id, !.check = TRUE],
                              Now, b).S.err = "MessageVerification"
    /\ (tamper = -1 /\ last.op = "read_block" /\ last.erroff # cfg.id
           /\ BlockEncrypted(last.arg)) =>
           last.err = "MessageVerification"

\* a handle with check = true, the key of the flushed meta stream and
\* another identifier has just been refused with InvalidHMAC
C25_Witness ==
    /\ FlushedByHandle
    /\ last.op = "open"
    /\ last.erroff = 1
    /\ last.arg # cfg.id
    /\ last.rc = cfg.meta_key
    /\ last.err = "InvalidHMAC"
    /\ \E b \in StoredBlocks : BlockEncrypted(b)

\* a clean handle over a store that is not empty and that nobody changed
\* behind its back has the tag of the store's content in front
CleanStoreTagged ==
    (tamper = -1 /\ ~is_dirty /\ Len(meta) > 0) =>
        TagOf(cfg.meta_key, cfg.id, meta)

\* flush of a dirty handle writes the tag, flushes the store and is clean
\* after that; flush of a clean handle does nothing to the store
FlushWritesTag(S) ==
    IF is_dirty
    THEN /\ S.log = <<"meta.write", "meta.flush">>
         /\ ~S.dirty
         /\ TagOf(cfg.meta_key, cfg.id, S.meta)
         /\ SubSeq(S.meta, hmac_length + 1, Len(S.meta))
                = SubSeq(meta, hmac_length + 1, Len(meta))
    ELSE /\ S.log = <<>>
         /\ S.meta = meta
         /\ ~S.dirty

\* C27: for an HMACStream opened with check = true, whenever the dirty
\* flag is clear and the store is not empty, the first bytes of the store
\* are the HMAC of the identifier followed by the rest of the store; write
\* and resize always set the flag; flush clears it after it wrote the tag
\* and flushed the store, and a flush of a clean stream writes nothing.
C27_CleanMeansTagged ==
    [][/\ CleanStoreTagged'
       /\ last'.op \in {"write", "resize"} => is_dirty'
       /\ last'.op = "flush" =>
              /\ FlushWritesTag(HMACStream_flush(cfg, HS))
              /\ meta' = HMACStream_flush(cfg, HS).meta
              /\ ~is_dirty']_vars

\* a stream with content has just been flushed: it is clean and tagged
C27_Witness ==
    /\ last.op = "flush"
    /\ ~is_dirty
    /\ tamper = -1
    /\ Len(meta) > hmac_length
    /\ TagOf(cfg.meta_key, cfg.id, meta)

----------------------------------------------------------------------------
(* The IV and tag records of the blocks of a stream that is written,       *)
(* resized, given a header and flushed                                     *)

MaxRSize == 2

NextRecords ==
    \/ Write(MaxRSize) \/ Read(MaxRSize) \/ Resize(MaxRSize)
    \/ WriteHeader \/ Flush

SpecRecords == InitFlush /\ [][NextRecords]_vars

\* C31: in every state that successful writes, resizes, header writes and
\* flushes of an untampered AES-GCM stream reach, every data block below
\* ceil(size() / B) has a whole IV and tag record in the meta stream, and no
\* read fails with CorruptedMetaData.
C31_EveryBlockHasRecord ==
    /\ \A k \in 0..MaxRSize + 1 :
           k < NumBlocks(cfg, Now) => Len(BlockRecord(k)) = get_meta_size(cfg)
    /\ CryptStream_read(cfg, Now, 0, MaxRSize + 2).S.err # "CorruptedMetaData"
    /\ last.err # "CorruptedMetaData"

\* a sparse stream of blocks of one byte holds an encrypted block before a
\* hole and a header, was flushed, and has just been read to its end
C31_Witness ==
    /\ cfg.sparse
    /\ cfg.block_size = 1
    /\ last.op = "read"
    /\ last.err = "none"
    /\ last.rc = 2
    /\ ~is_dirty
    /\ hdr # <<>>
    /\ BlockTagged(data, meta, 0)
    /\ BlockIsHole(data, meta, 1)

----------------------------------------------------------------------------
(* chpass_filesys step by step: the system calls it makes on the base
   directory, with the process stopped or a call failing at any of them *)

\* openat(O_WRONLY | O_CREAT | O_EXCL): fails when the name exists
openat_excl(fs, name) ==
    IF fs[name].exists THEN fs ELSE [fs EXCEPT ![name] = File(<<>>)]

\* renameat: the target name now holds the source file, whatever it held
renameat(fs, from, to) ==
    [fs EXCEPT ![to] = fs[from], ![from] = NoFile]

chpass_filesys_write_InPlace(fs, config, n) ==
    [fs EXCEPT ![CONFIG_FILE_NAME] = File(SubSeq(config, 1, n))]

\* config_stream.write(config.data(), 0, config.size()), of which the
\* first n parts reached the file
chpass_filesys_write(fs, config, n) ==
    [fs EXCEPT ![CONFIG_TMP_FILE_NAME] = File(SubSeq(config, 1, n))]

chpass_filesys_openat(fs) == openat_excl(fs, CONFIG_TMP_FILE_NAME)

chpass_filesys_renameat(fs) == renameat(fs, CONFIG_TMP_FILE_NAME, CONFIG_FILE_NAME)

\* chpass leaves: by return, by an exception, or killed
ChpassLeaves(err) ==
    /\ conf' = [conf EXCEPT !.rot = NoRotation]
    /\ last' = [NoOp EXCEPT !.op = "chpass", !.err = err]

\* read_config .. generate_config(..).dump()
ChpassGenerated(c, password, new_password, salt, iv) ==
    IF c.err # "none"
    THEN /\ conf' = [conf EXCEPT !.tried = password, !.out = c.parsed]
         /\ last' = [NoOp EXCEPT !.op = "chpass", !.err = c.err]
    ELSE /\ conf' = [conf EXCEPT
                        !.tried = password, !.out = c.parsed,
                        !.rot = [pc |-> "openat", old |-> conf.json, new |-> c.json,
                                 password |-> new_password, rnd |-> <<salt, iv>>]]
         /\ last' = [NoOp EXCEPT !.op = "chpass_generate"]

\* what the callers of a rotation pass in
RotatePasswords == {<<1>>, <<2>>}
RotateRounds == {0}

CreateConfig ==
    GenerateConfigOf({<<1>>}, RotatePasswords, {1024}, {12}, RotateRounds)

ChpassGenerate ==
    \E password \in RotatePasswords, new_password \in RotatePasswords,
       rounds \in RotateRounds, salt \in RandomKeys, iv \in RandomKeys :
        /\ conf.rot.pc = "idle"
        /\ conf.fs[CONFIG_FILE_NAME].exists
        /\ ChpassGenerated(chpass_filesys(json_parse(conf.fs[CONFIG_FILE_NAME].text),
                                          password, new_password, rounds, salt, iv),
                           password, new_password, salt, iv)
        /\ UNCHANGED <<cfg, hdr, data, meta, is_dirty, enc, ref, expect, tamper>>

ChpassOpenat ==
    /\ conf.rot.pc = "openat"
    /\ IF conf.fs[CONFIG_TMP_FILE_NAME].exists
       THEN ChpassLeaves("runtime_error")
       ELSE /\ conf' = [conf EXCEPT !.fs = chpass_filesys_openat(@),
                                    !.rot.pc = "write"]
            /\ last' = [NoOp EXCEPT !.op = "chpass_openat"]
    /\ UNCHANGED <<cfg, hdr, data, meta, is_dirty, enc, ref, expect, tamper>>

\* the write stops after n parts (n short of all: it throws, or the process
\* is killed in it)
ChpassWrite ==
    \E n \in 0..Len(dump(NoJson)) + Len(ConfigKeys) :
        /\ conf.rot.pc = "write"
        /\ n <= Len(dump(conf.rot.new))
        /\ conf' = [conf EXCEPT
                       !.fs = chpass_filesys_write(@, dump(conf.rot.new), n),
                       !.rot = IF n = Len(dump(conf.rot.new))
                               THEN [@ EXCEPT !.pc = "renameat"] ELSE NoRotation]
        /\ last' = [NoOp EXCEPT !.op = "chpass_write", !.arg = n,
                                !.err = IF n = Len(dump(conf.rot.new))
                                        THEN "none" ELSE "POSIXException"]
        /\ UNCHANGED <<cfg, hdr, data, meta, is_dirty, enc, ref, expect, tamper>>

ChpassRenamed(fs) ==
    /\ conf' = [conf EXCEPT !.fs = fs,
                            !.json = json_parse(fs[CONFIG_FILE_NAME].text),
                            !.password = conf.rot.password,
                            !.rnd = conf.rot.rnd,
                            !.rot = NoRotation]
    /\ last' = [NoOp EXCEPT !.op = "chpass_renameat"]

ChpassRenameat ==
    /\ conf.rot.pc = "renameat"
    /\ \/ ChpassRenamed(chpass_filesys_renameat(conf.fs))
       \/ ChpassLeaves("runtime_error")
    /\ UNCHANGED <<cfg, hdr, data, meta, is_dirty, enc, ref, expect, tamper>>

\* the process is killed between two calls
ChpassKilled ==
    /\ conf.rot.pc # "idle"
    /\ ChpassLeaves("killed")
    /\ UNCHANGED <<cfg, hdr, data, meta, is_dirty, enc, ref, expect, tamper>>

\* somebody removes a .securefs.json.tmp that a stopped chpass left
RemoveTmp ==
    /\ conf.rot.pc = "idle"
    /\ conf.fs[CONFIG_TMP_FILE_NAME].exists
    /\ conf' = [conf EXCEPT !.fs[CONFIG_TMP_FILE_NAME] = NoFile]
    /\ last' = [NoOp EXCEPT !.op = "unlink"]
    /\ UNCHANGED <<cfg, hdr, data, meta, is_dirty, enc, ref, expect, tamper>>

NextRotate ==
    \/ CreateConfig
    \/ ChpassGenerate
    \/ ChpassOpenat
    \/ ChpassWrite
    \/ ChpassRenameat
    \/ ChpassKilled
    \/ RemoveTmp

SpecRotate == InitConfig /\ [][NextRotate]_vars

\* .securefs.json holds the whole text of `config`
ConfigFileIs(fs, config) == fs[CONFIG_FILE_NAME] = File(dump(config))

\* .securefs.json is whole: it parses, and it opens the file system with
\* the password of the last finished rotation
ConfigFileWhole ==
    conf.fs[CONFIG_FILE_NAME].exists =>
        /\ conf.json = json_parse(conf.fs[CONFIG_FILE_NAME].text)
        /\ conf.json # NoJson
        /\ ConfigParses(parse_config(conf.json, conf.password, NoOut), TRUE)

\* C21: at every step of a password rotation, a stop or a failure at any
\* step included, .securefs.json holds the complete old configuration or the
\* complete new one, never a partial or an empty one; the new text is
\* written to .securefs.json.tmp only, and .securefs.json changes by the
\* rename alone, from the whole old text to the whole new text.
C21_RotationIsAtomic ==
    [][/\ ConfigFileWhole'
       /\ conf'.rot.pc # "idle" => ConfigFileIs(conf'.fs, conf'.rot.old)
       /\ conf'.fs[CONFIG_FILE_NAME] # conf.fs[CONFIG_FILE_NAME] =>
             \/ last'.op = "generate_config"
             \/ /\ last'.op = "chpass_renameat"
                /\ ConfigFileIs(conf.fs, conf.rot.old)
                /\ ConfigFileIs(conf'.fs, conf.rot.new)
                /\ conf.fs[CONFIG_TMP_FILE_NAME] = File(dump(conf.rot.new))
                /\ ~conf'.fs[CONFIG_TMP_FILE_NAME].exists]_vars

\* a rotation to another password stopped in the middle of the write: the
\* temporary file holds a proper, non-empty part of the new configuration
C21_Witness ==
    /\ last.op = "chpass_write"
    /\ last.err = "POSIXException"
    /\ last.arg > 0
    /\ conf.fs[CONFIG_TMP_FILE_NAME].exists
    /\ conf.fs[CONFIG_TMP_FILE_NAME].text # <<>>
    /\ json_parse(conf.fs[CONFIG_TMP_FILE_NAME].text) = NoJson
    /\ conf.fs[CONFIG_FILE_NAME] = File(dump(conf.json))

\* C37: a password rotation that failed or was stopped at any step does not
\* keep a later one from running: whenever chpass has read the configuration
\* with the right old password and is not killed, its openat creates
\* .securefs.json.tmp, also after an earlier run failed.
C37_FailedRotationDoesNotBlock ==
    [][conf.rot.pc = "openat" /\ last'.err # "killed"
          => /\ conf'.rot.pc = "write"
             /\ conf'.fs[CONFIG_TMP_FILE_NAME].exists]_vars

----------------------------------------------------------------------------
(* parse_config on version 2 configurations whose iv_size was edited *)

\* the IV sizes a config file can be made to carry
EditedIVSizes == {0, 11, 12, 64, 65}

\* somebody edits iv_size in a version 2 .securefs.json
EditIVSize ==
    \E iv_size \in EditedIVSizes :
        /\ tamper = -1
        /\ conf.json # NoJson
        /\ "iv_size" \in DOMAIN conf.json
        /\ conf.json.iv_size # iv_size
        /\ conf' = [conf EXCEPT !.json.iv_size = iv_size,
                                !.fs[CONFIG_FILE_NAME] =
                                    File(dump([conf.json EXCEPT !.iv_size = iv_size]))]
        /\ tamper' = 0
        /\ last' = [NoOp EXCEPT !.op = "edit", !.arg = iv_size]
        /\ UNCHANGED <<cfg, hdr, data, meta, is_dirty, enc, ref, expect>>

NextParse == CreateConfig \/ ParseConfig \/ EditIVSize

SpecParse == InitConfig /\ [][NextParse]_vars

\* the config is of version 2 and its iv_size lies outside [12, 64]
IVSizeOutOfRange(config) ==
    /\ ToUnsigned(config.version) = 2
    /\ "iv_size" \in DOMAIN config
    /\ (ToUnsigned(config.iv_size) < 12 \/ ToUnsigned(config.iv_size) > 64)

\* C33: parse_config of a version 2 config whose iv_size lies outside
\* [12, 64] fails with InvalidArgument and hands no master key, block size
\* or IV size to its caller.
C33_ParseRejectsIVSize ==
    (last.op = "parse_config" /\ IVSizeOutOfRange(conf.json)) =>
        /\ last.err = "InvalidArgument"
        /\ conf.out.master_key = <<>>
        /\ conf.out.block_size = 0
        /\ conf.out.iv_size = 0

----------------------------------------------------------------------------
(* The commands create, mount, fix and chpass, run by two processes on one
   base directory: the lock, the config file and the root directory *)

\* flock(dir_fd, LOCK_EX | LOCK_NB): refused at once while another open
\* file description holds a lock on the directory
flock(holders, p) ==
    IF holders \ {p} # {}
    THEN [rc |-> -1, errno |-> "EWOULDBLOCK", holders |-> holders]
    ELSE [rc |-> 0, errno |-> "none", holders |-> holders \cup {p}]

lock_base_directory_Unchecked(holders, p) ==
    [err |-> "none", holders |-> holders \cup {p}]

lock_base_directory_checked(r) ==
    IF r.rc < 0
    THEN [err |-> IF r.errno = "EWOULDBLOCK" THEN "lock_held" ELSE "runtime_error",
          holders |-> r.holders]
    ELSE [err |-> "none", holders |-> r.holders]

lock_base_directory(holders, p) == lock_base_directory_checked(flock(holders, p))

\* the lock is taken on the directory that ::open returned
open_and_lock_base_dir(holders, p) == lock_base_directory(holders, p)

\* unlinkat(dir_fd, name, 0)
unlinkat(fs, name) == [fs EXCEPT ![name] = NoFile]

\* what create draws and reads: master key, salt, password, IV
CommandKey == <<1>>
CommandPasswords == {<<1>>, <<2>>}
CommandPassword == <<1>>
\* --ver and --iv-size as the command line gives them
CreateVersions == {1, 2, 3}
CreateIVSizes == {11, 12, 13, 64, 65}

\* create_filesys: the checks of --ver and --iv-size
create_filesys_args(version, iv_size) ==
    IF version # 1 /\ version # 2 THEN "runtime_error"
    ELSE IF iv_size < 12 \/ iv_size > 64 THEN "runtime_error"
    ELSE "none"

\* create_filesys: the text written to .securefs.json
create_filesys_config(version, iv_size) ==
    dump(generate_config(version, CommandKey, <<1>>, CommandPassword, 4096, iv_size,
                         0, <<1>>))

\* create_filesys: the options the root directory is created with
create_filesys_opt(version) ==
    [version |-> version, block_size |-> 4096,
     iv_size |-> IF version = 1 THEN 32 ELSE 12]

create_filesys_catch_Always(fs, config_fd) == unlinkat(fs, CONFIG_FILE_NAME)

\* create_filesys: catch (...)
create_filesys_catch(fs, config_fd) ==
    IF config_fd >= 0 THEN unlinkat(fs, CONFIG_FILE_NAME) ELSE fs

\* read_config
read_config(fs) ==
    IF ~fs[CONFIG_FILE_NAME].exists
    THEN [err |-> "runtime_error", json |-> NoJson]
    ELSE IF fs[CONFIG_FILE_NAME].text = <<>>
    THEN [err |-> "runtime_error", json |-> NoJson]
    ELSE IF json_parse(fs[CONFIG_FILE_NAME].text) = NoJson
    THEN [err |-> "parse_error", json |-> NoJson]
    ELSE [err |-> "none", json |-> json_parse(fs[CONFIG_FILE_NAME].text)]

get_options_parsed(version, r) ==
    IF r.err # "none" THEN [err |-> r.err, version |-> version, iv_size |-> 0]
    ELSE IF ~r.ret THEN [err |-> "runtime_error", version |-> version, iv_size |-> 0]
    ELSE [err |-> "none", version |-> version, iv_size |-> r.iv_size]

\* get_options, after open_and_lock_base_dir
get_options_config(c, password) ==
    IF c.err # "none" THEN [err |-> c.err, version |-> 0, iv_size |-> 0]
    ELSE IF ToInt(c.json.version) # 1 /\ ToInt(c.json.version) # 2
    THEN [err |-> "runtime_error", version |-> ToInt(c.json.version), iv_size |-> 0]
    ELSE get_options_parsed(ToInt(c.json.version), parse_config(c.json, password, NoOut))

get_options(fs, password) == get_options_config(read_config(fs), password)

\* chpass_filesys from read_config to generate_config(..).dump()
chpass_filesys_config(c, password) ==
    IF c.err # "none" THEN [err |-> c.err, text |-> <<>>]
    ELSE [err |-> chpass_filesys(c.json, password, CommandPassword, 0, <<0>>, <<0>>).err,
          text |-> dump(chpass_filesys(c.json, password, CommandPassword, 0,
                                       <<0>>, <<0>>).json)]

\* one call of process p has returned: the call, its error, the commands'
\* state and the directory after it
CommandStep(p, call, err, c, fs) ==
    /\ conf' = [conf EXCEPT !.cmd = c, !.fs = fs]
    /\ last' = [NoOp EXCEPT !.op = call, !.arg = p, !.err = err]
    /\ UNCHANGED <<cfg, hdr, data, meta, is_dirty, enc, ref, expect, tamper>>

\* the process ends: its descriptors are closed, which drops its lock
Leave(c, p) == [c EXCEPT !.procs[p] = Idle, !.lock = @ \ {p}]

\* process p goes on to its next call, having made a call on a file
Goes(c, p, pc) == [c EXCEPT !.procs[p].pc = pc, !.procs[p].calls = @ + 1]

Commands == {"create", "mount", "fix", "chpass"}

\* a command starts and parses its arguments
Start(p) ==
    \E cmd \in Commands, version \in CreateVersions, iv_size \in CreateIVSizes :
        /\ conf.cmd.procs[p].pc = "idle"
        /\ cmd # "create" => (version = 2 /\ iv_size = 12)
        /\ IF cmd = "create" /\ create_filesys_args(version, iv_size) # "none"
           THEN CommandStep(p, "parse", create_filesys_args(version, iv_size),
                            conf.cmd, conf.fs)
           ELSE CommandStep(p, "parse", "none",
                            [conf.cmd EXCEPT !.procs[p] =
                                [Idle EXCEPT !.cmd = cmd, !.pc = "lock",
                                             !.version = version,
                                             !.iv_size = iv_size]],
                            conf.fs)

OpenAndLockDone(p, r) ==
    IF r.err # "none"
    THEN CommandStep(p, "flock", r.err, Leave(conf.cmd, p), conf.fs)
    ELSE CommandStep(p, "flock", "none",
                     [conf.cmd EXCEPT
                         !.lock = r.holders,
                         !.procs[p].pc = IF conf.cmd.procs[p].cmd = "create"
                                         THEN "openat" ELSE "read_config"],
                     conf.fs)

OpenAndLock(p) ==
    /\ conf.cmd.procs[p].pc = "lock"
    /\ OpenAndLockDone(p, open_and_lock_base_dir(conf.cmd.lock, p))

\* create: openat(folder_fd, CONFIG_FILE_NAME, O_WRONLY | O_CREAT | O_EXCL)
CreateOpenat(p) ==
    /\ conf.cmd.procs[p].pc = "openat"
    /\ IF conf.fs[CONFIG_FILE_NAME].exists
       THEN CommandStep(p, "openat", "runtime_error", Leave(conf.cmd, p),
                        create_filesys_catch(conf.fs, conf.cmd.procs[p].config_fd))
       ELSE CommandStep(p, "openat", "none",
                        [Goes(conf.cmd, p, "write") EXCEPT !.procs[p].config_fd = 3],
                        openat_excl(conf.fs, CONFIG_FILE_NAME))

\* create: config_stream.write, which may throw
CreateWrite(p) ==
    /\ conf.cmd.procs[p].pc = "write"
    /\ \/ CommandStep(p, "write", "none", Goes(conf.cmd, p, "root"),
                      [conf.fs EXCEPT ![CONFIG_FILE_NAME] =
                          File(create_filesys_config(conf.cmd.procs[p].version,
                                                     conf.cmd.procs[p].iv_size))])
       \/ CommandStep(p, "write", "POSIXException", Leave(conf.cmd, p),
                      create_filesys_catch(conf.fs, conf.cmd.procs[p].config_fd))

\* create: the root directory is made and flushed, which may throw
CreateRoot(p) ==
    /\ conf.cmd.procs[p].pc = "root"
    /\ \/ CommandStep(p, "root", "none",
                      [Leave(conf.cmd, p) EXCEPT !.root =
                          [exists |-> TRUE,
                           iv_size |-> create_filesys_opt(
                                           conf.cmd.procs[p].version).iv_size]],
                      conf.fs)
       \/ CommandStep(p, "root", "exception", Leave(conf.cmd, p),
                      create_filesys_catch(conf.fs, conf.cmd.procs[p].config_fd))

\* mount and fix: get_options reads and parses the config
GetOptionsDone(p, o) ==
    IF o.err # "none"
    THEN CommandStep(p, "read_config", o.err, Leave(conf.cmd, p), conf.fs)
    ELSE CommandStep(p, "read_config", "none",
                     [Goes(conf.cmd, p, "mounted") EXCEPT
                         !.procs[p].version = o.version,
                         !.procs[p].iv_size = o.iv_size],
                     conf.fs)

GetOptions(p) ==
    \E password \in CommandPasswords :
        /\ conf.cmd.procs[p].pc = "read_config"
        /\ conf.cmd.procs[p].cmd \in {"mount", "fix"}
        /\ GetOptionsDone(p, get_options(conf.fs, password))

\* the file system is unmounted, or fix has returned
Unmount(p) ==
    /\ conf.cmd.procs[p].pc = "mounted"
    /\ CommandStep(p, "exit", "none", Leave(conf.cmd, p), conf.fs)

\* chpass: read_config .. generate_config(..).dump()
ChpassConfigDone(p, c) ==
    IF c.err # "none"
    THEN CommandStep(p, "read_config", c.err, Leave(conf.cmd, p), conf.fs)
    ELSE CommandStep(p, "read_config", "none",
                     [Goes(conf.cmd, p, "chpass_openat") EXCEPT !.procs[p].new = c.text],
                     conf.fs)

ChpassConfig(p) ==
    \E password \in CommandPasswords :
        /\ conf.cmd.procs[p].pc = "read_config"
        /\ conf.cmd.procs[p].cmd = "chpass"
        /\ ChpassConfigDone(p, chpass_filesys_config(read_config(conf.fs), password))

\* chpass: openat of .securefs.json.tmp, the write and renameat
ChpassFile(p) ==
    \/ /\ conf.cmd.procs[p].pc = "chpass_openat"
       /\ IF conf.fs[CONFIG_TMP_FILE_NAME].exists
          THEN CommandStep(p, "chpass_openat", "runtime_error", Leave(conf.cmd, p),
                           conf.fs)
          ELSE CommandStep(p, "chpass_openat", "none",
                           Goes(conf.cmd, p, "chpass_write"),
                           chpass_filesys_openat(conf.fs))
    \/ /\ conf.cmd.procs[p].pc = "chpass_write"
       /\ \/ CommandStep(p, "chpass_write", "none",
                         Goes(conf.cmd, p, "chpass_renameat"),
                         chpass_filesys_write(conf.fs, conf.cmd.procs[p].new,
                                              Len(conf.cmd.procs[p].new)))
          \/ CommandStep(p, "chpass_write", "POSIXException", Leave(conf.cmd, p),
                         chpass_filesys_write(conf.fs, conf.cmd.procs[p].new, 0))
    \/ /\ conf.cmd.procs[p].pc = "chpass_renameat"
       /\ \/ CommandStep(p, "chpass_renameat", "none", Leave(conf.cmd, p),
                         chpass_filesys_renameat(conf.fs))
          \/ CommandStep(p, "chpass_renameat", "runtime_error", Leave(conf.cmd, p),
                         conf.fs)

NextCommands ==
    \E p \in Procs :
        \/ Start(p)
        \/ OpenAndLock(p)
        \/ CreateOpenat(p)
        \/ CreateWrite(p)
        \/ CreateRoot(p)
        \/ GetOptions(p)
        \/ Unmount(p)
        \/ ChpassConfig(p)
        \/ ChpassFile(p)

SpecCommands == InitConfig /\ [][NextCommands]_vars

\* the config file as read_config returns it
StoredConfig == read_config(conf.fs).json

\* C32: for a version 2 file system the IV size with which create made the
\* root directory is the iv_size stored in .securefs.json, for every
\* accepted --iv-size, so that a mount, which takes the IV size from the
\* config, reads the root directory with the IV size it was written with.
C32_RootIVSizeIsPersisted ==
    /\ (conf.cmd.root.exists /\ StoredConfig.version = 2) =>
           conf.cmd.root.iv_size = StoredConfig.iv_size
    /\ \A p \in Procs :
           (conf.cmd.procs[p].pc = "mounted" /\ conf.cmd.procs[p].version = 2) =>
               conf.cmd.procs[p].iv_size = conf.cmd.root.iv_size

\* the calls that read or change a file of the base directory
FileCalls ==
    {"openat", "write", "root", "read_config", "chpass_openat", "chpass_write",
     "chpass_renameat"}

\* C34: create, mount, fix and chpass take the exclusive non-blocking lock
\* on the base directory before they read or write the config file; of two
\* processes at most one holds the lock, and the other fails at once with
\* the error of a held lock, having read and changed no file.
C34_LockBeforeConfig ==
    [][/\ Cardinality(conf'.cmd.lock) <= 1
       /\ last'.op \in FileCalls => last'.arg \in conf.cmd.lock
       /\ (conf'.fs # conf.fs \/ conf'.cmd.root # conf.cmd.root) =>
              last'.arg \in conf.cmd.lock
       /\ \A p \in Procs : conf'.cmd.procs[p].calls > 0 => p \in conf'.cmd.lock
       /\ (conf.cmd.procs[last'.arg].pc = "lock" /\ conf.cmd.lock \ {last'.arg} # {}) =>
              last'.err = "lock_held"
       /\ last'.err = "lock_held" =>
              /\ conf.cmd.lock \ {last'.arg} # {}
              /\ conf'.cmd.lock = conf.cmd.lock
              /\ conf.cmd.procs[last'.arg].calls = 0
              /\ conf'.cmd.procs[last'.arg] = Idle
              /\ conf'.fs = conf.fs
              /\ conf'.cmd.root = conf.cmd.root]_vars

\* a command was refused the lock while the other process, in the middle
\* of create, holds it and has made .securefs.json but not yet written it
C34_Witness ==
    /\ last.op = "flock"
    /\ last.err = "lock_held"
    /\ \E q \in Procs \ {last.arg} :
           /\ conf.cmd.lock = {q}
           /\ conf.cmd.procs[q].cmd = "create"
           /\ conf.cmd.procs[q].pc = "write"
    /\ conf.fs[CONFIG_FILE_NAME] = File(<<>>)

\* C35: create neither overwrites nor deletes a .securefs.json it did not
\* make: if the file exists create fails and the file is unchanged; and a
\* create that fails after it made .securefs.json removes it again.
C35_CreateKeepsForeignConfig ==
    [][\A p \in Procs :
          (last'.arg = p /\ conf.cmd.procs[p].cmd = "create") =>
              /\ (conf.fs[CONFIG_FILE_NAME].exists /\ conf.cmd.procs[p].config_fd < 0) =>
                     /\ conf'.fs = conf.fs
                     /\ conf.cmd.procs[p].pc = "openat" =>
                            (last'.err # "none" /\ conf'.cmd.procs[p] = Idle)
              /\ (last'.err # "none" /\ conf.cmd.procs[p].config_fd >= 0) =>
                     ~conf'.fs[CONFIG_FILE_NAME].exists
              /\ (~conf.fs[CONFIG_FILE_NAME].exists /\ conf'.cmd.procs[p] = Idle
                     /\ last'.err # "none") =>
                     ~conf'.fs[CONFIG_FILE_NAME].exists
              /\ conf'.fs[CONFIG_TMP_FILE_NAME] = conf.fs[CONFIG_TMP_FILE_NAME]]_vars

\* create has just failed at its openat on a directory that holds the whole
\* config and the root directory of an earlier create
C35_Witness ==
    /\ last.op = "openat"
    /\ last.err = "runtime_error"
    /\ conf.cmd.root.exists
    /\ read_config(conf.fs).err = "none"
    /\ conf.cmd.procs[last.arg] = Idle

----------------------------------------------------------------------------
(* What an operation that fails leaves behind *)

\* C36: a write or resize of an AES-GCM stream that fails with
\* StreamTooLong leaves the stream as it was before the call: size(), the
\* plaintext it reads, the data store and the meta stream are unchanged.
C36_StreamTooLongLeavesStream ==
    [][(last'.op \in {"write", "resize"} /\ last'.err = "StreamTooLong") =>
          /\ CryptStream_size(Pack(data', meta', is_dirty', enc', <<0>>))
                 = CryptStream_size(Now)
          /\ data' = data
          /\ meta' = meta]_vars

----------------------------------------------------------------------------
(* The header region before and after write_header *)

\* C38: read_header returns false whenever no header was written through
\* write_header, also after data blocks were written or the stream was
\* resized, and returns true only when a header that write_header wrote is
\* stored.
C38_NoHeaderReadsFalse ==
    (last.op = "read_header" /\ last.err = "none") =>
        (last.rc = 1 <=> hdr # <<>>)

\* the stream after the step
After == Pack(data', meta', is_dirty', enc', <<0>>)

\* the IV and tag record of block k in the meta store m
RecordOf(m, k) ==
    POSIX_read(m, hmac_length + meta_position_for_iv(cfg, k), get_meta_size(cfg))

\* C39: write_header changes only the first H_enc bytes of the meta content
\* and the meta dirty flag: the data store, size(), the IV and tag record of
\* every block and the plaintext of every later read are as before the call.
C39_WriteHeaderFrame ==
    [][last'.op = "write_header" =>
          /\ data' = data
          /\ enc' = enc
          /\ CryptStream_size(After) = CryptStream_size(Now)
          /\ Len(meta') = IF last'.err = "none"
                          THEN Max(Len(meta), hmac_length + get_encrypted_header_size(cfg))
                          ELSE Len(meta)
          /\ \A i \in 1..Len(meta) :
                 (i <= hmac_length \/ i > hmac_length + get_encrypted_header_size(cfg))
                     => meta'[i] = meta[i]
          /\ \A k \in 0..MaxRSize : RecordOf(meta', k) = RecordOf(meta, k)
          /\ [out |-> CryptStream_read(cfg, After, 0, MaxRSize + 1).out,
              err |-> CryptStream_read(cfg, After, 0, MaxRSize + 1).S.err]
                 = [out |-> CryptStream_read(cfg, Now, 0, MaxRSize + 1).out,
                    err |-> CryptStream_read(cfg, Now, 0, MaxRSize + 1).S.err]]_vars

\* a header has just been written on a flushed stream of two blocks, which
\* made the meta stream dirty: the stored tag no longer fits the meta content
C39_Witness ==
    /\ last.op = "write_header"
    /\ last.err = "none"
    /\ is_dirty
    /\ hdr # <<>>
    /\ cfg.block_size = 1
    /\ Len(data) = 2
    /\ BlockTagged(data, meta, 0)
    /\ BlockTagged(data, meta, 1)
    /\ HMACStream_ctor(cfg.meta_key, cfg.id, meta, TRUE) = "InvalidHMAC"

====
